---- MODULE Spec2Model ----
(***************************************************************************)
(* A model of cable.js, the binary codec of the cable wire protocol:       *)
(* index.js (the create / toJSON / decrementTTL transforms of every        *)
(* message and post type), validation.js (the bound checks) and            *)
(* cryptography.js (sign / verify).                                        *)
(*                                                                         *)
(* A buffer is a sequence of bytes (0..255).  A JavaScript string is a     *)
(* sequence of Unicode codepoints; b4a.from(s, "utf8") and                 *)
(* b4a.toString(b, "utf8") are the UTF-8 encoder and decoder.  Offsets are *)
(* zero-based as in the source; Slice translates them.                     *)
(*                                                                         *)
(* The outcome of a call is a record: [kind |-> "throw", err |-> e] when   *)
(* the call raises, [kind |-> "return", val |-> v] when it returns the     *)
(* value v, and [kind |-> "returnError", err |-> e] when it returns an     *)
(* Error object as its value (return new Error(...)).                      *)
(***************************************************************************)
EXTENDS Integers, Sequences, FiniteSets, TLC

VARIABLES op, typ, src, args, buf, out, dec, hops, calls, bytes

vars == <<op, typ, src, args, buf, out, dec, hops, calls, bytes>>

(***************************************************************************)
(* constants.js                                                            *)
(***************************************************************************)
C_HASH_RESPONSE == 0
C_POST_RESPONSE == 1
C_POST_REQUEST == 2
C_CANCEL_REQUEST == 3
C_TIME_RANGE_REQUEST == 4
C_CHANNEL_STATE_REQUEST == 5
C_CHANNEL_LIST_REQUEST == 6
C_CHANNEL_LIST_RESPONSE == 7
C_MODERATION_STATE_REQUEST == 8

C_TEXT_POST == 0
C_DELETE_POST == 1
C_INFO_POST == 2
C_TOPIC_POST == 3
C_JOIN_POST == 4
C_LEAVE_POST == 5
C_ROLE_POST == 6
C_MODERATION_POST == 7
C_BLOCK_POST == 8
C_UNBLOCK_POST == 9

ACTION_HIDE_USER == 0
ACTION_UNHIDE_USER == 1
ACTION_HIDE_POST == 2
ACTION_UNHIDE_POST == 3
ACTION_DROP_POST == 4
ACTION_UNDROP_POST == 5
ACTION_DROP_CHANNEL == 6
ACTION_UNDROP_CHANNEL == 7

MAX_VARINT_SIZE == 10
REQID_SIZE == 4
CIRCUITID_SIZE == 4
HASH_SIZE == 32
PUBLICKEY_SIZE == 32
SECRETKEY_SIZE == 64
SIGNATURE_SIZE == 64

USER_NAME_MIN_CODEPOINTS == 1
USER_NAME_MAX_CODEPOINTS == 32
CHANNEL_NAME_MIN_CODEPOINTS == 1
CHANNEL_NAME_MAX_CODEPOINTS == 64
POST_TEXT_MAX_BYTES == 4096
INFO_KEY_MIN_CODEPOINTS == 1
INFO_KEY_MAX_CODEPOINTS == 128
INFO_VALUE_MAX_BYTES == 4096
TOPIC_MIN_CODEPOINTS == 0
TOPIC_MAX_CODEPOINTS == 512
REASON_MIN_CODEPOINTS == 0
REASON_MAX_CODEPOINTS == 128
RECIPIENT_COUNT_MIN == 1
RECIPIENT_COUNT_MAX == 16

(***************************************************************************)
(* JavaScript values and buffers                                           *)
(***************************************************************************)
\* the value of a variable that was never assigned (let decodedSlice)
Undefined == -1

\* the result of arithmetic on undefined (offset += undefined)
NaN == -2

\* const x = v; followed by the rest F of the function body, which names v as x
Bind(v, F(_)) == F(v)

IsNumber(x) == x >= 0

\* The numbers of 2^28 and more, which no length, bound or argument of the
\* model reaches, are all taken for Huge.
Huge == 268435456

\* a + b of JavaScript numbers
Plus(a, b) ==
  IF IsNumber(a) /\ IsNumber(b) THEN (IF a + b >= Huge THEN Huge ELSE a + b) ELSE NaN

\* a * b of JavaScript numbers that are not negative
Times(a, b) ==
  IF ~(IsNumber(a) /\ IsNumber(b)) THEN NaN
  ELSE IF a = 0 \/ b = 0 THEN 0
  ELSE IF a >= Huge \div b THEN Huge
  ELSE a * b

Min(a, b) == IF a <= b THEN a ELSE b

\* an index argument of slice: NaN becomes 0, the rest is clamped to the length
ToIndex(x, len) == IF IsNumber(x) THEN Min(x, len) ELSE 0

\* buf.slice(start, end)
Slice(b, start, end) ==
  Bind(ToIndex(start, Len(b)), LAMBDA s :
  Bind(ToIndex(end, Len(b)), LAMBDA e :
  IF e <= s THEN <<>> ELSE SubSeq(b, s + 1, e)))

\* buf.slice(start)
SliceFrom(b, start) == Slice(b, start, Len(b))

\* b4a.alloc(n)
Alloc(n) == [i \in 1..n |-> 0]

\* n copies of the byte (or codepoint) x
Rep(x, n) == [i \in 1..n |-> x]

RECURSIVE Concat(_)
\* b4a.concat(list)
Concat(list) == IF list = <<>> THEN <<>> ELSE Head(list) \o Concat(Tail(list))

Throw(e) == [kind |-> "throw", err |-> e]

Return(v) == [kind |-> "return", val |-> v]

ReturnError(e) == [kind |-> "returnError", err |-> e]

Threw(r) == r.kind = "throw"

Returned(r) == r.kind = "return"

(***************************************************************************)
(* The varint package (LEB128, 7 bits per byte)                            *)
(***************************************************************************)
RECURSIVE varint_encode(_)
\* NaN | 0 and undefined | 0 are 0
varint_encode(n) ==
  IF ~IsNumber(n) THEN <<0>>
  ELSE IF n < 128 THEN <<n>> ELSE <<(n % 128) + 128>> \o varint_encode(n \div 128)

RECURSIVE Pow2(_)
Pow2(k) == IF k = 0 THEN 1 ELSE 2 * Pow2(k - 1)

RECURSIVE varint_read(_, _, _, _)
\* varint.decode(buf): ok = FALSE stands for the RangeError it throws
varint_read(b, counter, shift, res) ==
  IF counter >= Len(b) \/ shift > 49
  THEN [ok |-> FALSE, value |-> Undefined, bytes |-> 0]
  ELSE LET byte == b[counter + 1]
           res2 == IF shift >= 28 THEN (IF res = Huge \/ byte % 128 > 0 THEN Huge ELSE res)
                   ELSE res + (byte % 128) * Pow2(shift)
       IN  IF byte >= 128
           THEN varint_read(b, counter + 1, shift + 7, res2)
           ELSE [ok |-> TRUE, value |-> res2, bytes |-> counter + 1]

varint_decode(b) == varint_read(b, 0, 0, 0)

RECURSIVE decodeVarintSliceFrom(_, _, _)
decodeVarintSliceFrom(frame, offset, i) ==
  IF i >= MAX_VARINT_SIZE
  THEN [value |-> Undefined, bytes |-> 0]
  ELSE Bind(varint_decode(Slice(frame, offset, Plus(offset, i))), LAMBDA r :
       IF r.ok
       THEN [value |-> r.value, bytes |-> r.bytes]
       ELSE decodeVarintSliceFrom(frame, offset, i + 1))

\* value: what the function returns; bytes: varint.decode.bytes after the call
decodeVarintSlice(frame, offset) == decodeVarintSliceFrom(frame, offset, 1)

\* the outcome of the call: the RangeError of varint.decode is caught and the
\* next slice tried; after the last slice the function returns decodedSlice,
\* assigned or not
decodeVarintSlice_call(frame, offset) == Return(decodeVarintSlice(frame, offset).value)

encodeVarintBuffer(n) == varint_encode(n)

(***************************************************************************)
(* UTF-8: b4a.from(string, "utf8") and b4a.toString(buf, "utf8")           *)
(***************************************************************************)
utf8_encode(cp) ==
  IF cp < 128 THEN <<cp>>
  ELSE IF cp < 2048 THEN <<192 + (cp \div 64), 128 + (cp % 64)>>
  ELSE IF cp < 65536
       THEN <<224 + (cp \div 4096), 128 + ((cp \div 64) % 64), 128 + (cp % 64)>>
       ELSE <<240 + (cp \div 262144), 128 + ((cp \div 4096) % 64),
              128 + ((cp \div 64) % 64), 128 + (cp % 64)>>

RECURSIVE b4a_from(_)
b4a_from(str) == IF str = <<>> THEN <<>> ELSE utf8_encode(Head(str)) \o b4a_from(Tail(str))

REPLACEMENT_CHARACTER == 65533

\* the number of continuation bytes a lead byte asks for (0: not a lead byte)
utf8_needed(lead) ==
  IF lead >= 194 /\ lead <= 223 THEN 1
  ELSE IF lead >= 224 /\ lead <= 239 THEN 2
  ELSE IF lead >= 240 /\ lead <= 244 THEN 3
  ELSE 0

\* the range allowed for the first continuation byte
utf8_lower(lead) == IF lead = 224 THEN 160 ELSE IF lead = 240 THEN 144 ELSE 128

utf8_upper(lead) == IF lead = 237 THEN 159 ELSE IF lead = 244 THEN 143 ELSE 191

utf8_leadbits(lead) ==
  IF lead <= 223 THEN lead - 192 ELSE IF lead <= 239 THEN lead - 224 ELSE lead - 240

RECURSIVE utf8_cont(_, _, _, _, _)
\* reads the continuation bytes of one character; returns <<codepoint, next index>>
utf8_cont(b, i, lead, k, acc) ==
  IF k = utf8_needed(lead) THEN <<acc, i>>
  ELSE IF i > Len(b) THEN <<REPLACEMENT_CHARACTER, i>>
  ELSE LET lo == IF k = 0 THEN utf8_lower(lead) ELSE 128
           hi == IF k = 0 THEN utf8_upper(lead) ELSE 191
       IN  IF b[i] < lo \/ b[i] > hi
           THEN <<REPLACEMENT_CHARACTER, i>>
           ELSE utf8_cont(b, i + 1, lead, k + 1, acc * 64 + (b[i] - 128))

RECURSIVE utf8_decode(_, _)
utf8_decode(b, i) ==
  IF i > Len(b) THEN <<>>
  ELSE IF b[i] < 128 THEN <<b[i]>> \o utf8_decode(b, i + 1)
  ELSE IF utf8_needed(b[i]) = 0 THEN <<REPLACEMENT_CHARACTER>> \o utf8_decode(b, i + 1)
  ELSE LET r == utf8_cont(b, i + 1, b[i], 0, utf8_leadbits(b[i]))
       IN  <<r[1]>> \o utf8_decode(b, r[2])

\* a decoder that takes every byte for a codepoint
b4a_toString_latin1(b) == b

b4a_toString(b) == utf8_decode(b, 1)

(***************************************************************************)
(* validation.js                                                           *)
(***************************************************************************)
isBufferSizeMin(b, MIN_SIZE) == Len(b) >= MIN_SIZE

isBufferSizeMax(b, MAX_SIZE) == Len(b) <= MAX_SIZE

\* each check is TRUE when the function returns and FALSE when it throws
checkChannelName(channelBuf) ==
  /\ isBufferSizeMin(channelBuf, CHANNEL_NAME_MIN_CODEPOINTS)
  /\ isBufferSizeMax(channelBuf, CHANNEL_NAME_MAX_CODEPOINTS)

checkReason(reasonBuf) ==
  /\ isBufferSizeMin(reasonBuf, REASON_MIN_CODEPOINTS)
  /\ isBufferSizeMax(reasonBuf, REASON_MAX_CODEPOINTS)

checkTopic(topicBuf) ==
  /\ isBufferSizeMin(topicBuf, TOPIC_MIN_CODEPOINTS)
  /\ isBufferSizeMax(topicBuf, TOPIC_MAX_CODEPOINTS)

checkUsername(valueBuf) ==
  /\ isBufferSizeMin(valueBuf, USER_NAME_MIN_CODEPOINTS)
  /\ isBufferSizeMax(valueBuf, USER_NAME_MAX_CODEPOINTS)

checkInfoValue(valueBuf) == isBufferSizeMax(valueBuf, INFO_VALUE_MAX_BYTES)

\* exported by validation.js; no create and no toJSON calls it
checkFuture(value) == value = 0 \/ value = 1

checkInfoKey(keyBuf) ==
  /\ isBufferSizeMin(keyBuf, INFO_KEY_MIN_CODEPOINTS)
  /\ isBufferSizeMax(keyBuf, INFO_KEY_MAX_CODEPOINTS)

checkPostText(textBuf) == isBufferSizeMax(textBuf, POST_TEXT_MAX_BYTES)

\* the upper bound alone
checkRecipientsLength_max(recipients) == ~(Len(recipients) > RECIPIENT_COUNT_MAX)

checkRecipientsLength(recipients) ==
  /\ ~(Len(recipients) > RECIPIENT_COUNT_MAX)
  /\ ~(Len(recipients) < RECIPIENT_COUNT_MIN)

(***************************************************************************)
(* index.js: predicates on arguments                                       *)
(***************************************************************************)
isInteger(n) == n \in Int

\* the lower bound alone
ttlRangeCorrect_lower(ttl) == ttl >= 0

ttlRangeCorrect(ttl) == ttl >= 0 /\ ttl <= 16

\* a buffer of at most SIZE bytes
isBufferSize_atMost(b, SIZE) == Len(b) <= SIZE

isBufferSize(b, SIZE) == Len(b) = SIZE

\* an array whose entries are all buffers, of any length
isArrayData(arr) == \A i \in 1..Len(arr) : arr[i] \in Seq(0..255)

isArrayHashes(arr) == \A i \in 1..Len(arr) : isBufferSize(arr[i], HASH_SIZE)

isArrayPublicKeys(arr) == \A i \in 1..Len(arr) : isBufferSize(arr[i], PUBLICKEY_SIZE)

EMPTY_CIRCUIT_ID == Alloc(4)

(***************************************************************************)
(* index.js: the size planner and the field writer                         *)
(***************************************************************************)
V(n) == [k |-> "v", n |-> n]

B(n) == [k |-> "b", n |-> n]

H(n) == [k |-> "h", n |-> n]

S(n) == [k |-> "s", n |-> n]

RECURSIVE determineBufferSize(_)
determineBufferSize(inputs) ==
  IF inputs = <<>> THEN 0
  ELSE LET rep == Head(inputs)
           size == IF rep.k = "b" THEN rep.n
                   ELSE IF rep.k = "v" THEN Len(varint_encode(rep.n))
                   ELSE IF rep.k = "h" THEN rep.n * HASH_SIZE + Len(varint_encode(rep.n))
                   ELSE rep.n + Len(varint_encode(rep.n))
       IN  size + determineBufferSize(Tail(inputs))

RECURSIVE countPostsBytes(_)
countPostsBytes(posts) ==
  IF posts = <<>> THEN 0
  ELSE Len(Head(posts)) + Len(varint_encode(Len(Head(posts)))) + countPostsBytes(Tail(posts))

RECURSIVE countChannelsBytes(_)
countChannelsBytes(channels) ==
  IF channels = <<>> THEN 0
  ELSE LET len == Len(b4a_from(Head(channels)))
       IN  len + Len(varint_encode(len)) + countChannelsBytes(Tail(channels))

\* b4a.copy(source, target, targetStart): the bytes that fit are copied
b4a_copy(source, target, targetStart) ==
  [i \in 1..Len(target) |->
     IF i > targetStart /\ i <= targetStart + Len(source)
     THEN source[i - targetStart] ELSE target[i]]

\* the number b4a.copy returns
b4a_copied(source, target, targetStart) ==
  IF targetStart >= Len(target) THEN 0 ELSE Min(Len(source), Len(target) - targetStart)

\* the writes of a create, in order: a buffer copied at the offset (offset +=
\* b4a.copy(...)), a varint (offset += writeVarint(...)), or bytes skipped
WCopy(b) == [w |-> "copy", b |-> b]

WVarint(n) == [w |-> "varint", b |-> encodeVarintBuffer(n)]

WSkip(n) == [w |-> "skip", b |-> Alloc(n)]

RECURSIVE WriteAll(_, _, _)
\* the frame and the final offset after the writes
WriteAll(frame, offset, writes) ==
  IF writes = <<>> THEN [frame |-> frame, offset |-> offset]
  ELSE LET wr == Head(writes)
       IN  IF wr.w = "skip"
           THEN WriteAll(frame, offset + Len(wr.b), Tail(writes))
           ELSE WriteAll(b4a_copy(wr.b, frame, offset),
                         offset + (IF wr.w = "varint" THEN Len(wr.b)
                                   ELSE b4a_copied(wr.b, frame, offset)),
                         Tail(writes))

\* const frame = b4a.alloc(size), followed by the writes: the frame, the
\* offset after the last write, and the size planned
WriteFrame(size, writes) ==
  Bind(WriteAll(Alloc(size), 0, writes), LAMBDA w :
    [frame |-> w.frame, offset |-> w.offset, size |-> size])

\* the entries written last to first
WCopyEach_reversed(list) == [i \in 1..Len(list) |-> [w |-> "copy", b |-> list[Len(list) + 1 - i]]]

RECURSIVE WCopyEach(_)
\* list.forEach(x => { offset += b4a.copy(x, frame, offset) })
WCopyEach(list) == IF list = <<>> THEN <<>> ELSE <<WCopy(Head(list))>> \o WCopyEach(Tail(list))

RECURSIVE WPosts(_)
WPosts(posts) ==
  IF posts = <<>> THEN <<>>
  ELSE <<WVarint(Len(Head(posts))), WCopy(Head(posts))>> \o WPosts(Tail(posts))

RECURSIVE WChannels(_)
WChannels(channels) ==
  IF channels = <<>> THEN <<>>
  ELSE LET channelBuf == b4a_from(Head(channels))
       IN  <<WVarint(Len(channelBuf)), WCopy(channelBuf)>> \o WChannels(Tail(channels))

\* TRUE when checkChannelName accepts every channel of the list
checkChannelNames(channels) == \A i \in 1..Len(channels) : checkChannelName(b4a_from(channels[i]))

\* a length prefix that counts its own first byte
prependMsgLen_inclusive(b) == Concat(<<varint_encode(Len(b) + 1), b>>)

prependMsgLen(b) == Concat(<<encodeVarintBuffer(Len(b)), b>>)

\* the fixed-size entries read by: for (i = 0; i < count; i++) push(buf.slice(offset, offset + size))
ReadList(b, offset, count, size) ==
  [i \in 1..count |-> Slice(b, Plus(offset, (i - 1) * size), Plus(offset, i * size))]

\* the offset after that loop
AfterList(offset, count, size) == IF count > 0 THEN Plus(offset, Times(count, size)) ELSE offset

(***************************************************************************)
(* index.js: the decoders read a buffer field by field behind a moving     *)
(* offset.  A layout lists the reads of one decoder in the order the code  *)
(* makes them; Read carries them out and returns the record of the values  *)
(* read, with the offset reached.                                          *)
(***************************************************************************)
\* r with field name set to v
Put(r, name, v) == (name :> v) @@ r

\* name = decodeVarintSlice(buf, offset); offset += varint.decode.bytes
Varint(name) == [k |-> "varint", name |-> name]

\* name = offset
Mark(name) == [k |-> "mark", name |-> name]

\* offset += n
Skip(n) == [k |-> "skip", n |-> n]

\* name = buf.slice(offset, offset + n); offset += n
Bytes(name, n) == [k |-> "bytes", name |-> name, n |-> n]

\* name = buf.slice(offset, offset + len); offset += len, len a field read before
Sized(name, len) == [k |-> "sized", name |-> name, len |-> len]

\* for (i = 0; i < count; i++) { name.push(buf.slice(offset, offset + n)); offset += n }
List(name, count, n) == [k |-> "list", name |-> name, count |-> count, n |-> n]

\* name = buf.slice(offset, end)
SliceTo(name, end) == [k |-> "sliceTo", name |-> name, end |-> end]

ReadOne(b, r, e) ==
  CASE e.k = "varint" ->
         Bind(decodeVarintSlice(b, r.offset), LAMBDA d :
           [Put(r, e.name, d.value) EXCEPT !.offset = Plus(r.offset, d.bytes)])
    [] e.k = "mark" -> Put(r, e.name, r.offset)
    [] e.k = "skip" -> [r EXCEPT !.offset = Plus(r.offset, e.n)]
    [] e.k = "bytes" ->
         [Put(r, e.name, Slice(b, r.offset, Plus(r.offset, e.n)))
            EXCEPT !.offset = Plus(r.offset, e.n)]
    [] e.k = "sized" ->
         [Put(r, e.name, Slice(b, r.offset, Plus(r.offset, r[e.len])))
            EXCEPT !.offset = Plus(r.offset, r[e.len])]
    [] e.k = "list" ->
         [Put(r, e.name, ReadList(b, r.offset, r[e.count], e.n))
            EXCEPT !.offset = AfterList(r.offset, r[e.count], e.n)]
    [] e.k = "sliceTo" -> Put(r, e.name, Slice(b, r.offset, e.end))

RECURSIVE ReadFrom(_, _, _, _)
\* the reads layout[i], layout[i + 1], ... made one after the other
ReadFrom(b, r, layout, i) ==
  IF i > Len(layout) THEN r
  ELSE CHOOSE res \in {ReadFrom(b, read, layout, i + 1) : read \in {ReadOne(b, r, layout[i])}} :
         TRUE

Read(b, r, layout) == ReadFrom(b, r, layout, 1)

\* let offset = 0
Start == [offset |-> 0]

\* steps 1 to 4 of every message decoder: msgLen, msgType, circuitid, reqid
MessageHead ==
  <<Varint("msgLen"), Mark("msgLenBytes"), Varint("msgType"), Skip(CIRCUITID_SIZE),
    Bytes("reqid", REQID_SIZE)>>

(***************************************************************************)
(* index.js: the messages.  T_frame is the part of T.create that plans the *)
(* size, allocates and writes the fields; T_create is the argument checks  *)
(* followed by prependMsgLen of the frame.                                 *)
(***************************************************************************)
HASH_RESPONSE_frame(reqid, hashes) ==
  WriteFrame(determineBufferSize(<<V(C_HASH_RESPONSE), B(CIRCUITID_SIZE), B(REQID_SIZE),
                                   H(Len(hashes))>>),
             <<WVarint(C_HASH_RESPONSE), WCopy(EMPTY_CIRCUIT_ID), WCopy(reqid),
               WVarint(Len(hashes))>> \o WCopyEach(hashes))

HASH_RESPONSE_create(reqid, hashes) ==
  IF ~isBufferSize(reqid, REQID_SIZE) THEN Throw("bufferExpected reqid")
  ELSE IF ~isArrayHashes(hashes) THEN Throw("HASHES_EXPECTED")
  ELSE Return(prependMsgLen(HASH_RESPONSE_frame(reqid, hashes).frame))

\* the reads of HASH_RESPONSE.toJSON, in order
HASH_RESPONSE_reads ==
  MessageHead \o <<Varint("hashCount"), List("hashes", "hashCount", HASH_SIZE)>>

HASH_RESPONSE_toJSON(b) ==
  Bind(Read(b, Start, HASH_RESPONSE_reads), LAMBDA r :
  IF ~isBufferSize(SliceFrom(b, r.msgLenBytes), r.msgLen)
  THEN Throw("bufferExpected remaining buf")
  ELSE IF r.msgType # C_HASH_RESPONSE THEN Throw("msgType")
  ELSE IF ~isBufferSize(r.reqid, REQID_SIZE) THEN Throw("bufferExpected reqid")
  ELSE IF ~isArrayHashes(r.hashes) THEN Throw("HASHES_EXPECTED")
  ELSE Return([msgLen |-> r.msgLen, msgType |-> r.msgType, reqid |-> r.reqid,
               hashes |-> r.hashes]))

POST_RESPONSE_frame(reqid, posts) ==
  WriteFrame(determineBufferSize(<<V(C_POST_REQUEST), B(CIRCUITID_SIZE), B(REQID_SIZE),
                                   B(countPostsBytes(posts)), V(0)>>),
             <<WVarint(C_POST_RESPONSE), WCopy(EMPTY_CIRCUIT_ID), WCopy(reqid)>>
               \o WPosts(posts) \o <<WVarint(0)>>)

POST_RESPONSE_create(reqid, posts) ==
  IF ~isBufferSize(reqid, REQID_SIZE) THEN Throw("bufferExpected reqid")
  ELSE IF ~isArrayData(posts) THEN Throw("expected posts to be a buffer")
  ELSE Return(prependMsgLen(POST_RESPONSE_frame(reqid, posts).frame))

\* remaining = msgLen - offset + msgLenBytes; remaining > 0
RemainingPositive(msgLen, offset, msgLenBytes) ==
  IsNumber(msgLen) /\ IsNumber(offset) /\ msgLen - offset + msgLenBytes > 0

RECURSIVE ReadPosts(_, _, _, _, _)
\* the while (remaining > 0) loop of POST_RESPONSE.toJSON
ReadPosts(b, offset, msgLen, msgLenBytes, posts) ==
  IF ~RemainingPositive(msgLen, offset, msgLenBytes) THEN posts
  ELSE Bind(Read(b, [offset |-> offset], <<Varint("postLen"), Sized("post", "postLen")>>),
            LAMBDA r : IF r.postLen = 0 THEN posts
                       ELSE ReadPosts(b, r.offset, msgLen, msgLenBytes,
                                      Append(posts, r.post)))

POST_RESPONSE_toJSON(b) ==
  Bind(Read(b, Start, MessageHead), LAMBDA r :
  IF ~isBufferSize(SliceFrom(b, r.msgLenBytes), r.msgLen)
  THEN Throw("bufferExpected remaining buf")
  ELSE IF r.msgType # C_POST_RESPONSE THEN Throw("msgType")
  ELSE IF ~isBufferSize(r.reqid, REQID_SIZE) THEN Throw("bufferExpected reqid")
  ELSE Return([msgLen |-> r.msgLen, msgType |-> r.msgType, reqid |-> r.reqid,
               posts |-> ReadPosts(b, r.offset, r.msgLen, r.msgLenBytes, <<>>)]))

POST_REQUEST_frame(reqid, ttl, hashes) ==
  WriteFrame(determineBufferSize(<<V(C_POST_REQUEST), B(CIRCUITID_SIZE), B(REQID_SIZE),
                                   V(ttl), H(Len(hashes))>>),
             <<WVarint(C_POST_REQUEST), WCopy(EMPTY_CIRCUIT_ID), WCopy(reqid),
               WVarint(ttl), WVarint(Len(hashes))>> \o WCopyEach(hashes))

POST_REQUEST_create(reqid, ttl, hashes) ==
  IF ~isBufferSize(reqid, REQID_SIZE) THEN Throw("bufferExpected reqid")
  ELSE IF ~isInteger(ttl) THEN Throw("integerExpected ttl")
  ELSE IF ~ttlRangeCorrect(ttl) THEN Throw("ttlRangeExpected")
  ELSE IF ~isArrayHashes(hashes) THEN Throw("HASHES_EXPECTED")
  ELSE Return(prependMsgLen(POST_REQUEST_frame(reqid, ttl, hashes).frame))

POST_REQUEST_toJSON(b) ==
  Bind(Read(b, Start, MessageHead \o
               <<Varint("ttl"), Varint("hashCount"),
                 List("hashes", "hashCount", HASH_SIZE)>>), LAMBDA r :
  IF ~isBufferSize(SliceFrom(b, r.msgLenBytes), r.msgLen)
  THEN Throw("bufferExpected remaining buf")
  ELSE IF r.msgType # C_POST_REQUEST THEN Throw("msgType")
  ELSE IF ~isBufferSize(r.reqid, REQID_SIZE) THEN Throw("bufferExpected reqid")
  ELSE IF ~ttlRangeCorrect(r.ttl) THEN Throw("ttlRangeExpected")
  ELSE IF ~isArrayHashes(r.hashes) THEN Throw("HASHES_EXPECTED")
  ELSE Return([msgLen |-> r.msgLen, msgType |-> r.msgType, reqid |-> r.reqid,
               ttl |-> r.ttl, hashes |-> r.hashes]))

\* a cancel request with the cancelid written before the ttl
CANCEL_REQUEST_frame_swapped(reqid, ttl, cancelid) ==
  WriteFrame(determineBufferSize(<<V(C_CANCEL_REQUEST), B(CIRCUITID_SIZE), B(REQID_SIZE),
                                   V(ttl), B(REQID_SIZE)>>),
             <<WVarint(C_CANCEL_REQUEST), WCopy(EMPTY_CIRCUIT_ID), WCopy(reqid),
               WCopy(cancelid), WVarint(ttl)>>)

CANCEL_REQUEST_frame(reqid, ttl, cancelid) ==
  WriteFrame(determineBufferSize(<<V(C_CANCEL_REQUEST), B(CIRCUITID_SIZE), B(REQID_SIZE),
                                   V(ttl), B(REQID_SIZE)>>),
             <<WVarint(C_CANCEL_REQUEST), WCopy(EMPTY_CIRCUIT_ID), WCopy(reqid),
               WVarint(ttl), WCopy(cancelid)>>)

CANCEL_REQUEST_create(reqid, ttl, cancelid) ==
  IF ~isBufferSize(reqid, REQID_SIZE) THEN Throw("bufferExpected reqid")
  ELSE IF ~isInteger(ttl) THEN Throw("integerExpected ttl")
  ELSE IF ~ttlRangeCorrect(ttl) THEN Throw("ttlRangeExpected")
  ELSE IF ~isBufferSize(cancelid, REQID_SIZE) THEN Throw("bufferExpected cancelid")
  ELSE Return(prependMsgLen(CANCEL_REQUEST_frame(reqid, ttl, cancelid).frame))

CANCEL_REQUEST_toJSON(b) ==
  Bind(Read(b, Start, MessageHead \o
               <<Varint("ttl"), Bytes("cancelid", REQID_SIZE)>>), LAMBDA r :
  IF ~isBufferSize(SliceFrom(b, r.msgLenBytes), r.msgLen)
  THEN Throw("bufferExpected remaining buf")
  ELSE IF r.msgType # C_CANCEL_REQUEST THEN Throw("msgType")
  ELSE IF ~ttlRangeCorrect(r.ttl) THEN Throw("ttlRangeExpected")
  ELSE Return([msgLen |-> r.msgLen, msgType |-> r.msgType, reqid |-> r.reqid,
               ttl |-> r.ttl, cancelid |-> r.cancelid]))

TIME_RANGE_REQUEST_frame(reqid, ttl, channel, timeStart, timeEnd, limit) ==
  Bind(b4a_from(channel), LAMBDA channelBuf :
  WriteFrame(determineBufferSize(<<V(C_TIME_RANGE_REQUEST), B(CIRCUITID_SIZE),
                                   B(REQID_SIZE), V(ttl), S(Len(channelBuf)),
                                   V(timeStart), V(timeEnd), V(limit)>>),
               <<WVarint(C_TIME_RANGE_REQUEST), WCopy(EMPTY_CIRCUIT_ID), WCopy(reqid),
               WVarint(ttl), WVarint(Len(channelBuf)), WCopy(channelBuf),
               WVarint(timeStart), WVarint(timeEnd), WVarint(limit)>>))

TIME_RANGE_REQUEST_create(reqid, ttl, channel, timeStart, timeEnd, limit) ==
  IF ~isBufferSize(reqid, REQID_SIZE) THEN Throw("bufferExpected reqid")
  ELSE IF ~isInteger(ttl) THEN Throw("integerExpected ttl")
  ELSE IF ~ttlRangeCorrect(ttl) THEN Throw("ttlRangeExpected")
  ELSE IF ~isInteger(timeStart) THEN Throw("integerExpected timeStart")
  ELSE IF ~isInteger(timeEnd) THEN Throw("integerExpected timeEnd")
  ELSE IF ~isInteger(limit) THEN Throw("integerExpected limit")
  ELSE IF ~checkChannelName(b4a_from(channel)) THEN Throw("codepointRangeExpected channel")
  ELSE Return(prependMsgLen(
                TIME_RANGE_REQUEST_frame(reqid, ttl, channel, timeStart, timeEnd, limit).frame))

TIME_RANGE_REQUEST_toJSON(b) ==
  Bind(Read(b, Start, MessageHead \o
               <<Varint("ttl"), Varint("channelLen"), Sized("channelBuf", "channelLen"),
                 Varint("timeStart"), Varint("timeEnd"), Varint("limit")>>), LAMBDA r :
  IF ~isBufferSize(SliceFrom(b, r.msgLenBytes), r.msgLen)
  THEN Throw("bufferExpected remaining buf")
  ELSE IF r.msgType # C_TIME_RANGE_REQUEST THEN ReturnError("msgType")
  ELSE IF ~ttlRangeCorrect(r.ttl) THEN Throw("ttlRangeExpected")
  ELSE IF ~checkChannelName(r.channelBuf) THEN Throw("codepointRangeExpected channel")
  ELSE Return([msgLen |-> r.msgLen, msgType |-> r.msgType, reqid |-> r.reqid,
               ttl |-> r.ttl, channel |-> b4a_toString(r.channelBuf),
               timeStart |-> r.timeStart, timeEnd |-> r.timeEnd, limit |-> r.limit]))

CHANNEL_STATE_REQUEST_frame(reqid, ttl, channel, future) ==
  Bind(b4a_from(channel), LAMBDA channelBuf :
  WriteFrame(determineBufferSize(<<V(C_CHANNEL_STATE_REQUEST), B(CIRCUITID_SIZE),
                                   B(REQID_SIZE), V(ttl), S(Len(channelBuf)),
                                   V(future)>>),
               <<WVarint(C_CHANNEL_STATE_REQUEST), WCopy(EMPTY_CIRCUIT_ID), WCopy(reqid),
               WVarint(ttl), WVarint(Len(channelBuf)), WCopy(channelBuf),
               WVarint(future)>>))

CHANNEL_STATE_REQUEST_create(reqid, ttl, channel, future) ==
  IF ~isBufferSize(reqid, REQID_SIZE) THEN Throw("bufferExpected reqid")
  ELSE IF ~isInteger(ttl) THEN Throw("integerExpected ttl")
  ELSE IF ~ttlRangeCorrect(ttl) THEN Throw("ttlRangeExpected")
  ELSE IF ~isInteger(future) THEN Throw("integerExpected future")
  ELSE IF ~checkChannelName(b4a_from(channel)) THEN Throw("codepointRangeExpected channel")
  ELSE Return(prependMsgLen(CHANNEL_STATE_REQUEST_frame(reqid, ttl, channel, future).frame))

CHANNEL_STATE_REQUEST_toJSON(b) ==
  Bind(Read(b, Start, MessageHead \o
               <<Varint("ttl"), Varint("channelLen"), Sized("channelBuf", "channelLen"),
                 Varint("future")>>), LAMBDA r :
  IF ~isBufferSize(SliceFrom(b, r.msgLenBytes), r.msgLen)
  THEN Throw("bufferExpected remaining buf")
  ELSE IF r.msgType # C_CHANNEL_STATE_REQUEST THEN ReturnError("msgType")
  ELSE IF ~isBufferSize(r.reqid, REQID_SIZE) THEN Throw("bufferExpected reqid")
  ELSE IF ~ttlRangeCorrect(r.ttl) THEN Throw("ttlRangeExpected")
  ELSE IF ~checkChannelName(r.channelBuf) THEN Throw("codepointRangeExpected channel")
  ELSE Return([msgLen |-> r.msgLen, msgType |-> r.msgType, reqid |-> r.reqid,
               ttl |-> r.ttl, channel |-> b4a_toString(r.channelBuf),
               future |-> r.future]))

\* the writes of CHANNEL_LIST_REQUEST.create, in order
CHANNEL_LIST_REQUEST_writes(reqid, ttl, argOffset, limit) ==
  <<WVarint(C_CHANNEL_LIST_REQUEST), WCopy(EMPTY_CIRCUIT_ID), WCopy(reqid),
    WVarint(ttl), WVarint(argOffset), WVarint(limit)>>

CHANNEL_LIST_REQUEST_frame(reqid, ttl, argOffset, limit) ==
  WriteFrame(determineBufferSize(<<V(C_CHANNEL_LIST_REQUEST), B(CIRCUITID_SIZE),
                                   B(REQID_SIZE), V(ttl), V(argOffset), V(limit)>>),
             CHANNEL_LIST_REQUEST_writes(reqid, ttl, argOffset, limit))

CHANNEL_LIST_REQUEST_create(reqid, ttl, argOffset, limit) ==
  IF ~isBufferSize(reqid, REQID_SIZE) THEN Throw("bufferExpected reqid")
  ELSE IF ~isInteger(ttl) THEN Throw("integerExpected ttl")
  ELSE IF ~ttlRangeCorrect(ttl) THEN Throw("ttlRangeExpected")
  ELSE IF ~isInteger(argOffset) THEN Throw("integerExpected offset")
  ELSE IF ~isInteger(limit) THEN Throw("integerExpected limit")
  ELSE Return(prependMsgLen(CHANNEL_LIST_REQUEST_frame(reqid, ttl, argOffset, limit).frame))

CHANNEL_LIST_REQUEST_toJSON(b) ==
  Bind(Read(b, Start, MessageHead \o
               <<Varint("ttl"), Varint("argOffset"), Varint("limit")>>), LAMBDA r :
  IF ~isBufferSize(SliceFrom(b, r.msgLenBytes), r.msgLen)
  THEN Throw("bufferExpected remaining buf")
  ELSE IF r.msgType # C_CHANNEL_LIST_REQUEST THEN ReturnError("msgType")
  ELSE IF ~isBufferSize(r.reqid, REQID_SIZE) THEN Throw("bufferExpected reqid")
  ELSE IF ~ttlRangeCorrect(r.ttl) THEN Throw("ttlRangeExpected")
  ELSE Return([msgLen |-> r.msgLen, msgType |-> r.msgType, reqid |-> r.reqid,
               ttl |-> r.ttl, offset |-> r.argOffset, limit |-> r.limit]))

CHANNEL_LIST_RESPONSE_frame(reqid, channels) ==
  WriteFrame(determineBufferSize(<<V(C_CHANNEL_LIST_RESPONSE), B(CIRCUITID_SIZE),
                                   B(REQID_SIZE), B(countChannelsBytes(channels)), V(0)>>),
             <<WVarint(C_CHANNEL_LIST_RESPONSE), WCopy(EMPTY_CIRCUIT_ID), WCopy(reqid)>>
               \o WChannels(channels) \o <<WVarint(0)>>)

CHANNEL_LIST_RESPONSE_create(reqid, channels) ==
  IF ~isBufferSize(reqid, REQID_SIZE) THEN Throw("bufferExpected reqid")
  ELSE IF ~checkChannelNames(channels) THEN Throw("codepointRangeExpected channel")
  ELSE Return(prependMsgLen(CHANNEL_LIST_RESPONSE_frame(reqid, channels).frame))

RECURSIVE ReadChannels(_, _, _, _, _)
\* the while (remaining > 0) loop of the channel lists: ok = FALSE when
\* checkChannelName throws; offset is the offset after the loop
ReadChannels(b, offset, msgLen, msgLenBytes, channels) ==
  IF ~RemainingPositive(msgLen, offset, msgLenBytes)
  THEN [ok |-> TRUE, channels |-> channels, offset |-> offset]
  ELSE Bind(Read(b, [offset |-> offset],
                 <<Varint("channelLen"), Sized("channelBuf", "channelLen")>>),
            LAMBDA r : IF r.channelLen = 0
                       THEN [ok |-> TRUE, channels |-> channels, offset |-> r.offset]
                       ELSE IF ~checkChannelName(r.channelBuf)
                       THEN [ok |-> FALSE, channels |-> channels, offset |-> r.offset]
                       ELSE ReadChannels(b, r.offset, msgLen, msgLenBytes,
                                         Append(channels, b4a_toString(r.channelBuf))))

CHANNEL_LIST_RESPONSE_toJSON(b) ==
  Bind(Read(b, Start, MessageHead), LAMBDA r :
  Bind(ReadChannels(b, r.offset, r.msgLen, r.msgLenBytes, <<>>), LAMBDA list :
  IF ~isBufferSize(SliceFrom(b, r.msgLenBytes), r.msgLen)
  THEN Throw("bufferExpected remaining buf")
  ELSE IF r.msgType # C_CHANNEL_LIST_RESPONSE THEN ReturnError("msgType")
  ELSE IF ~isBufferSize(r.reqid, REQID_SIZE) THEN Throw("bufferExpected reqid")
  ELSE IF ~list.ok THEN Throw("codepointRangeExpected channel")
  ELSE Return([msgLen |-> r.msgLen, msgType |-> r.msgType, reqid |-> r.reqid,
               channels |-> list.channels])))

MODERATION_STATE_REQUEST_frame(reqid, channels, future, oldest) ==
  WriteFrame(determineBufferSize(<<V(C_MODERATION_STATE_REQUEST), B(CIRCUITID_SIZE),
                                   B(REQID_SIZE), B(countChannelsBytes(channels)), V(0),
                                   V(future), V(oldest)>>),
             <<WVarint(C_MODERATION_STATE_REQUEST), WCopy(EMPTY_CIRCUIT_ID), WCopy(reqid)>>
               \o WChannels(channels) \o <<WVarint(0), WVarint(future), WVarint(oldest)>>)

\* argc is arguments.length: the function declares four parameters and has
\* no ttl among them
MODERATION_STATE_REQUEST_create(argc, reqid, channels, future, oldest) ==
  IF argc # 4 THEN Throw("wrongNumberArguments")
  ELSE IF ~isBufferSize(reqid, REQID_SIZE) THEN Throw("bufferExpected reqid")
  ELSE IF ~isInteger(future) THEN Throw("integerExpected future")
  ELSE IF ~isInteger(oldest) THEN Throw("integerExpected oldest")
  ELSE IF ~checkChannelNames(channels) THEN Throw("codepointRangeExpected channel")
  ELSE Return(prependMsgLen(MODERATION_STATE_REQUEST_frame(reqid, channels, future, oldest).frame))

MODERATION_STATE_REQUEST_toJSON(b) ==
  Bind(Read(b, Start, MessageHead), LAMBDA r :
  Bind(ReadChannels(b, r.offset, r.msgLen, r.msgLenBytes, <<>>), LAMBDA list :
  Bind(Read(b, [offset |-> list.offset], <<Varint("future"), Varint("oldest")>>), LAMBDA t :
  IF ~isBufferSize(SliceFrom(b, r.msgLenBytes), r.msgLen)
  THEN Throw("bufferExpected remaining buf")
  ELSE IF r.msgType # C_MODERATION_STATE_REQUEST THEN ReturnError("msgType")
  ELSE IF ~isBufferSize(r.reqid, REQID_SIZE) THEN Throw("bufferExpected reqid")
  ELSE IF ~list.ok THEN Throw("codepointRangeExpected channel")
  ELSE Return([msgLen |-> r.msgLen, msgType |-> r.msgType, reqid |-> r.reqid,
               channels |-> list.channels, future |-> t.future, oldest |-> t.oldest]))))

\* a relay that writes back the ttl it read
insertNewTTL_same(b, expectedType) ==
  Bind(Read(b, Start, <<Varint("msgLen"), Mark("msgLenOffset"), Varint("msgType"),
                        Skip(CIRCUITID_SIZE), Skip(REQID_SIZE), Mark("ttlOffset"),
                        Varint("ttl")>>), LAMBDA r :
  IF r.msgType # expectedType THEN Throw("msgType")
  ELSE IF IsNumber(r.ttl) /\ r.ttl - 1 < 0 THEN Throw("ttl negative")
  ELSE Return(prependMsgLen(Concat(<<Slice(b, r.msgLenOffset, r.ttlOffset),
                                     encodeVarintBuffer(r.ttl), SliceFrom(b, r.offset)>>))))

\* a relay with no check of the new ttl
insertNewTTL_unchecked(b, expectedType) ==
  Bind(Read(b, Start, <<Varint("msgLen"), Mark("msgLenOffset"), Varint("msgType"),
                        Skip(CIRCUITID_SIZE), Skip(REQID_SIZE), Mark("ttlOffset"),
                        Varint("ttl")>>), LAMBDA r :
  IF r.msgType # expectedType THEN Throw("msgType")
  ELSE Return(prependMsgLen(Concat(<<Slice(b, r.msgLenOffset, r.ttlOffset),
                                     encodeVarintBuffer(IF IsNumber(r.ttl) /\ r.ttl >= 1
                                                        THEN r.ttl - 1 ELSE 0),
                                     SliceFrom(b, r.offset)>>))))

\* a relay that leaves out afterTTL
insertNewTTL_head(b, expectedType) ==
  Bind(Read(b, Start, <<Varint("msgLen"), Mark("msgLenOffset"), Varint("msgType"),
                        Skip(CIRCUITID_SIZE), Skip(REQID_SIZE), Mark("ttlOffset"),
                        Varint("ttl")>>), LAMBDA r :
  IF r.msgType # expectedType THEN Throw("msgType")
  ELSE IF IsNumber(r.ttl) /\ r.ttl - 1 < 0 THEN Throw("ttl negative")
  ELSE Return(prependMsgLen(Concat(<<Slice(b, r.msgLenOffset, r.ttlOffset),
                                     encodeVarintBuffer(IF IsNumber(r.ttl) THEN r.ttl - 1
                                                        ELSE NaN)>>))))

insertNewTTL(b, expectedType) ==
  Bind(Read(b, Start, <<Varint("msgLen"), Mark("msgLenOffset"), Varint("msgType"),
                        Skip(CIRCUITID_SIZE), Skip(REQID_SIZE), Mark("ttlOffset"),
                        Varint("ttl")>>), LAMBDA r :
  IF r.msgType # expectedType THEN Throw("msgType")
  ELSE IF IsNumber(r.ttl) /\ r.ttl - 1 < 0 THEN Throw("ttl negative")
  ELSE Return(prependMsgLen(Concat(<<Slice(b, r.msgLenOffset, r.ttlOffset),
                                     encodeVarintBuffer(IF IsNumber(r.ttl) THEN r.ttl - 1
                                                        ELSE NaN),
                                     SliceFrom(b, r.offset)>>))))

POST_REQUEST_decrementTTL(b) == insertNewTTL(b, C_POST_REQUEST)

\* class CANCEL_REQUEST has the static methods create and toJSON only: the
\* property decrementTTL is undefined, and calling it raises a TypeError
CANCEL_REQUEST_decrementTTL(b) == Throw("TypeError decrementTTL is not a function")

TIME_RANGE_REQUEST_decrementTTL(b) == insertNewTTL(b, C_TIME_RANGE_REQUEST)

CHANNEL_STATE_REQUEST_decrementTTL(b) == insertNewTTL(b, C_CHANNEL_STATE_REQUEST)

CHANNEL_LIST_REQUEST_decrementTTL(b) == insertNewTTL(b, C_CHANNEL_LIST_REQUEST)

peekMessage(b) == decodeVarintSlice(b, decodeVarintSlice(b, 0).bytes).value

\* the post type of a post buffer: skips public key, signature and links
peekPost(b) ==
  Bind(decodeVarintSlice(b, PUBLICKEY_SIZE + SIGNATURE_SIZE), LAMBDA numLinks :
    decodeVarintSlice(b, Plus(Plus(PUBLICKEY_SIZE + SIGNATURE_SIZE, numLinks.bytes),
                              Times(numLinks.value, HASH_SIZE))).value)

(***************************************************************************)
(* cryptography.js.  The signature primitive is modelled as an ideal one:   *)
(* a secret key is a 32-byte seed followed by the 32-byte public key, the   *)
(* signature is a function of the payload and of the public half, and       *)
(* opening accepts exactly the signature made over the same payload with    *)
(* the secret key of the given public key.                                  *)
(***************************************************************************)
RECURSIVE Checksum(_)
Checksum(b) ==
  IF Len(b) = 0 THEN 0
  ELSE IF Len(b) = 1 THEN b[1] % 256
  ELSE (Checksum(SubSeq(b, 1, Len(b) \div 2))
          + Checksum(SubSeq(b, (Len(b) \div 2) + 1, Len(b)))) % 256

\* a digest of the length of the payload alone
digest_length(payload) == Len(payload) % 256

digest(payload) == (Checksum(payload) + Len(payload)) % 256

\* the signature a key whose public half is publicKey gives a payload of digest d
Signature(publicKey, d) ==
  [i \in 1..SIGNATURE_SIZE |-> (publicKey[((i - 1) % PUBLICKEY_SIZE) + 1] + d) % 256]

crypto_sign(payload, secretKey) ==
  Bind(digest(payload), LAMBDA d : Signature(SliceFrom(secretKey, PUBLICKEY_SIZE), d))

crypto_sign_open(sigAndPayload, publicKey) ==
  /\ Len(sigAndPayload) >= SIGNATURE_SIZE
  /\ Bind(digest(SliceFrom(sigAndPayload, SIGNATURE_SIZE)), LAMBDA d :
          SubSeq(sigAndPayload, 1, SIGNATURE_SIZE) = Signature(publicKey, d))

\* the buffer after sign has written the signature in place
sign(b, secretKey) ==
  Concat(<<Slice(b, 0, PUBLICKEY_SIZE),
           crypto_sign(SliceFrom(b, PUBLICKEY_SIZE + SIGNATURE_SIZE), secretKey),
           SliceFrom(b, PUBLICKEY_SIZE + SIGNATURE_SIZE)>>)

\* FALSE also stands for the error verify raises on a short public key
verify(b, publicKey) ==
  /\ isBufferSize(publicKey, PUBLICKEY_SIZE)
  /\ crypto_sign_open(SliceFrom(b, PUBLICKEY_SIZE), publicKey)

checkSignature(message, publicKey) == verify(message, publicKey)

(***************************************************************************)
(* index.js: the posts.  T_frame is the unsigned buffer T.create writes.    *)
(***************************************************************************)
\* steps 1 to 5 of every post decoder
PostHead ==
  <<Bytes("publicKey", PUBLICKEY_SIZE), Bytes("signature", SIGNATURE_SIZE),
    Varint("numLinks"), List("links", "numLinks", HASH_SIZE), Varint("postType")>>

\* steps 1 to 5 of every post encoder
WPostHead(publicKey, links, postType) ==
  <<WCopy(publicKey), WSkip(SIGNATURE_SIZE), WVarint(Len(links))>>
    \o WCopyEach(links) \o <<WVarint(postType)>>

\* crypto.sign(buf, secretKey); validation.checkSignature(buf, publicKey); return buf
SignAndReturn(frame, publicKey, secretKey) ==
  Bind(sign(frame, secretKey), LAMBDA signed :
    IF ~checkSignature(signed, publicKey) THEN Throw("signature") ELSE Return(signed))

TEXT_POST_frame(publicKey, links, channel, timestamp, text) ==
  WriteFrame(determineBufferSize(<<B(PUBLICKEY_SIZE), B(SIGNATURE_SIZE), H(Len(links)),
                                   V(C_TEXT_POST), V(timestamp), S(Len(b4a_from(channel))),
                                   S(Len(b4a_from(text)))>>),
             WPostHead(publicKey, links, C_TEXT_POST)
               \o <<WVarint(timestamp), WVarint(Len(b4a_from(channel))), WCopy(b4a_from(channel)),
                    WVarint(Len(b4a_from(text))), WCopy(b4a_from(text))>>)

TEXT_POST_create(publicKey, secretKey, links, channel, timestamp, text) ==
  IF ~isBufferSize(publicKey, PUBLICKEY_SIZE) THEN Throw("bufferExpected publicKey")
  ELSE IF ~isBufferSize(secretKey, SECRETKEY_SIZE) THEN Throw("bufferExpected secretKey")
  ELSE IF ~isArrayHashes(links) THEN Throw("LINKS_EXPECTED")
  ELSE IF ~isInteger(timestamp) THEN Throw("integerExpected timestamp")
  ELSE IF ~checkChannelName(b4a_from(channel)) THEN Throw("codepointRangeExpected channel")
  ELSE IF ~checkPostText(b4a_from(text)) THEN Throw("ReferenceError bufferExpectedMax")
  ELSE SignAndReturn(TEXT_POST_frame(publicKey, links, channel, timestamp, text).frame,
                     publicKey, secretKey)

TEXT_POST_toJSON(b) ==
  IF ~checkSignature(b, Slice(b, 0, PUBLICKEY_SIZE)) THEN Throw("signature")
  ELSE
  Bind(Read(b, Start, PostHead \o
               <<Varint("timestamp"), Varint("channelLen"), Sized("channelBuf", "channelLen"),
                 Varint("textLen"), Sized("textBuf", "textLen")>>), LAMBDA r :
  IF ~isArrayHashes(r.links) THEN Throw("LINKS_EXPECTED")
  ELSE IF r.postType # C_TEXT_POST THEN ReturnError("postType")
  ELSE IF ~checkChannelName(r.channelBuf) THEN Throw("codepointRangeExpected channel")
  ELSE IF ~checkPostText(r.textBuf) THEN Throw("ReferenceError bufferExpectedMax")
  ELSE Return([publicKey |-> r.publicKey, signature |-> r.signature, links |-> r.links,
               postType |-> r.postType, channel |-> b4a_toString(r.channelBuf),
               timestamp |-> r.timestamp, text |-> b4a_toString(r.textBuf)]))

DELETE_POST_frame(publicKey, links, timestamp, hashes) ==
  WriteFrame(determineBufferSize(<<B(PUBLICKEY_SIZE), B(SIGNATURE_SIZE), H(Len(links)),
                                   V(C_DELETE_POST), V(timestamp), H(Len(hashes))>>),
             WPostHead(publicKey, links, C_DELETE_POST)
               \o <<WVarint(timestamp), WVarint(Len(hashes))>> \o WCopyEach(hashes))

DELETE_POST_create(publicKey, secretKey, links, timestamp, hashes) ==
  IF ~isBufferSize(publicKey, PUBLICKEY_SIZE) THEN Throw("bufferExpected publicKey")
  ELSE IF ~isBufferSize(secretKey, SECRETKEY_SIZE) THEN Throw("bufferExpected secretKey")
  ELSE IF ~isArrayHashes(links) THEN Throw("LINKS_EXPECTED")
  ELSE IF ~isInteger(timestamp) THEN Throw("integerExpected timestamp")
  ELSE IF ~isArrayHashes(hashes) THEN Throw("HASHES_EXPECTED")
  ELSE SignAndReturn(DELETE_POST_frame(publicKey, links, timestamp, hashes).frame,
                     publicKey, secretKey)

DELETE_POST_toJSON(b) ==
  IF ~checkSignature(b, Slice(b, 0, PUBLICKEY_SIZE)) THEN Throw("signature")
  ELSE
  Bind(Read(b, Start, PostHead \o
               <<Varint("timestamp"), Varint("numDeletions"),
                 List("hashes", "numDeletions", HASH_SIZE)>>), LAMBDA r :
  IF ~isArrayHashes(r.links) THEN Throw("LINKS_EXPECTED")
  ELSE IF r.postType # C_DELETE_POST THEN ReturnError("postType")
  ELSE IF ~isArrayHashes(r.hashes) THEN Throw("HASHES_EXPECTED")
  ELSE Return([publicKey |-> r.publicKey, signature |-> r.signature, links |-> r.links,
               postType |-> r.postType, timestamp |-> r.timestamp, hashes |-> r.hashes]))

\* the string "name"
KEY_NAME == <<110, 97, 109, 101>>

INFO_POST_frame(publicKey, links, timestamp, key, value) ==
  WriteFrame(determineBufferSize(<<B(PUBLICKEY_SIZE), B(SIGNATURE_SIZE), H(Len(links)),
                                   V(C_INFO_POST), V(timestamp), S(Len(b4a_from(key))),
                                   S(Len(b4a_from(value))), V(0)>>),
             WPostHead(publicKey, links, C_INFO_POST)
               \o <<WVarint(timestamp), WVarint(Len(b4a_from(key))), WCopy(b4a_from(key)),
                    WVarint(Len(b4a_from(value))), WCopy(b4a_from(value)), WVarint(0)>>)

\* argc is arguments.length: the function declares six parameters, the last
\* two being one key and one value
INFO_POST_create(argc, publicKey, secretKey, links, timestamp, key, value) ==
  IF argc # 6 THEN Throw("wrongNumberArguments")
  ELSE IF ~isBufferSize(publicKey, PUBLICKEY_SIZE) THEN Throw("bufferExpected publicKey")
  ELSE IF ~isBufferSize(secretKey, SECRETKEY_SIZE) THEN Throw("bufferExpected secretKey")
  ELSE IF ~isArrayHashes(links) THEN Throw("LINKS_EXPECTED")
  ELSE IF ~isInteger(timestamp) THEN Throw("integerExpected timestamp")
  ELSE IF ~checkInfoKey(b4a_from(key)) THEN Throw("codepointRangeExpected key")
  ELSE IF ~checkInfoValue(b4a_from(value)) THEN Throw("ReferenceError bufferExpectedMax")
  ELSE IF key = KEY_NAME /\ ~checkUsername(b4a_from(value))
  THEN Throw("codepointRangeExpected name")
  ELSE SignAndReturn(INFO_POST_frame(publicKey, links, timestamp, key, value).frame,
                     publicKey, secretKey)

INFO_POST_toJSON(b) ==
  IF ~checkSignature(b, Slice(b, 0, PUBLICKEY_SIZE)) THEN Throw("signature")
  ELSE
  Bind(Read(b, Start, PostHead \o
               <<Varint("timestamp"), Varint("keyLen"), Sized("keyBuf", "keyLen"),
                 Varint("valueLen"), Sized("valueBuf", "valueLen"),
                 Varint("finalValueLen")>>), LAMBDA r :
  IF ~isArrayHashes(r.links) THEN Throw("LINKS_EXPECTED")
  ELSE IF r.postType # C_INFO_POST THEN ReturnError("postType")
  ELSE IF ~checkInfoKey(r.keyBuf) THEN Throw("codepointRangeExpected key")
  ELSE IF ~checkInfoValue(r.valueBuf) THEN Throw("ReferenceError bufferExpectedMax")
  ELSE IF b4a_toString(r.keyBuf) = KEY_NAME /\ ~checkUsername(r.valueBuf) THEN Throw("codepointRangeExpected name")
  ELSE IF r.finalValueLen # 0 THEN ReturnError("final keyN_len")
  ELSE Return([publicKey |-> r.publicKey, signature |-> r.signature, links |-> r.links,
               postType |-> r.postType, timestamp |-> r.timestamp,
               key |-> b4a_toString(r.keyBuf), value |-> b4a_toString(r.valueBuf)]))

TOPIC_POST_frame(publicKey, links, channel, timestamp, topic) ==
  WriteFrame(determineBufferSize(<<B(PUBLICKEY_SIZE), B(SIGNATURE_SIZE), H(Len(links)),
                                   V(C_TOPIC_POST), V(timestamp), S(Len(b4a_from(channel))),
                                   S(Len(b4a_from(topic)))>>),
             WPostHead(publicKey, links, C_TOPIC_POST)
               \o <<WVarint(timestamp), WVarint(Len(b4a_from(channel))), WCopy(b4a_from(channel)),
                    WVarint(Len(b4a_from(topic))), WCopy(b4a_from(topic))>>)

TOPIC_POST_create(publicKey, secretKey, links, channel, timestamp, topic) ==
  IF ~isBufferSize(publicKey, PUBLICKEY_SIZE) THEN Throw("bufferExpected publicKey")
  ELSE IF ~isBufferSize(secretKey, SECRETKEY_SIZE) THEN Throw("bufferExpected secretKey")
  ELSE IF ~isArrayHashes(links) THEN Throw("LINKS_EXPECTED")
  ELSE IF ~isInteger(timestamp) THEN Throw("integerExpected timestamp")
  ELSE IF ~checkChannelName(b4a_from(channel)) THEN Throw("codepointRangeExpected channel")
  ELSE IF ~checkTopic(b4a_from(topic)) THEN Throw("codepointRangeExpected topic")
  ELSE SignAndReturn(TOPIC_POST_frame(publicKey, links, channel, timestamp, topic).frame,
                     publicKey, secretKey)

TOPIC_POST_toJSON(b) ==
  IF ~checkSignature(b, Slice(b, 0, PUBLICKEY_SIZE)) THEN Throw("signature")
  ELSE
  Bind(Read(b, Start, PostHead \o
               <<Varint("timestamp"), Varint("channelLen"), Sized("channelBuf", "channelLen"),
                 Varint("topicLen"), Sized("topicBuf", "topicLen")>>), LAMBDA r :
  IF ~isArrayHashes(r.links) THEN Throw("LINKS_EXPECTED")
  ELSE IF r.postType # C_TOPIC_POST THEN ReturnError("postType")
  ELSE IF ~checkChannelName(r.channelBuf) THEN Throw("codepointRangeExpected channel")
  ELSE IF ~checkTopic(r.topicBuf) THEN Throw("codepointRangeExpected topic")
  ELSE Return([publicKey |-> r.publicKey, signature |-> r.signature, links |-> r.links,
               postType |-> r.postType, channel |-> b4a_toString(r.channelBuf),
               timestamp |-> r.timestamp, topic |-> b4a_toString(r.topicBuf)]))

JOIN_POST_frame(publicKey, links, channel, timestamp) ==
  WriteFrame(determineBufferSize(<<B(PUBLICKEY_SIZE), B(SIGNATURE_SIZE), H(Len(links)),
                                   V(C_JOIN_POST), V(timestamp), S(Len(b4a_from(channel)))>>),
             WPostHead(publicKey, links, C_JOIN_POST)
               \o <<WVarint(timestamp), WVarint(Len(b4a_from(channel))),
                    WCopy(b4a_from(channel))>>)

JOIN_POST_create(publicKey, secretKey, links, channel, timestamp) ==
  IF ~isBufferSize(publicKey, PUBLICKEY_SIZE) THEN Throw("bufferExpected publicKey")
  ELSE IF ~isBufferSize(secretKey, SECRETKEY_SIZE) THEN Throw("bufferExpected secretKey")
  ELSE IF ~isArrayHashes(links) THEN Throw("LINKS_EXPECTED")
  ELSE IF ~isInteger(timestamp) THEN Throw("integerExpected timestamp")
  ELSE IF ~checkChannelName(b4a_from(channel)) THEN Throw("codepointRangeExpected channel")
  ELSE SignAndReturn(JOIN_POST_frame(publicKey, links, channel, timestamp).frame, publicKey, secretKey)

JOIN_POST_toJSON(b) ==
  IF ~checkSignature(b, Slice(b, 0, PUBLICKEY_SIZE)) THEN Throw("signature")
  ELSE
  Bind(Read(b, Start, PostHead \o
               <<Varint("timestamp"), Varint("channelLen"), Sized("channelBuf", "channelLen")>>), LAMBDA r :
  IF ~isArrayHashes(r.links) THEN Throw("LINKS_EXPECTED")
  ELSE IF r.postType # C_JOIN_POST THEN ReturnError("postType")
  ELSE IF ~checkChannelName(r.channelBuf) THEN Throw("codepointRangeExpected channel")
  ELSE Return([publicKey |-> r.publicKey, signature |-> r.signature, links |-> r.links,
               postType |-> r.postType, channel |-> b4a_toString(r.channelBuf),
               timestamp |-> r.timestamp]))

LEAVE_POST_frame(publicKey, links, channel, timestamp) ==
  WriteFrame(determineBufferSize(<<B(PUBLICKEY_SIZE), B(SIGNATURE_SIZE), H(Len(links)),
                                   V(C_LEAVE_POST), V(timestamp), S(Len(b4a_from(channel)))>>),
             WPostHead(publicKey, links, C_LEAVE_POST)
               \o <<WVarint(timestamp), WVarint(Len(b4a_from(channel))),
                    WCopy(b4a_from(channel))>>)

LEAVE_POST_create(publicKey, secretKey, links, channel, timestamp) ==
  IF ~isBufferSize(publicKey, PUBLICKEY_SIZE) THEN Throw("bufferExpected publicKey")
  ELSE IF ~isBufferSize(secretKey, SECRETKEY_SIZE) THEN Throw("bufferExpected secretKey")
  ELSE IF ~isArrayHashes(links) THEN Throw("LINKS_EXPECTED")
  ELSE IF ~isInteger(timestamp) THEN Throw("integerExpected timestamp")
  ELSE IF ~checkChannelName(b4a_from(channel)) THEN Throw("codepointRangeExpected channel")
  ELSE SignAndReturn(LEAVE_POST_frame(publicKey, links, channel, timestamp).frame, publicKey, secretKey)

LEAVE_POST_toJSON(b) ==
  IF ~checkSignature(b, Slice(b, 0, PUBLICKEY_SIZE)) THEN Throw("signature")
  ELSE
  Bind(Read(b, Start, PostHead \o
               <<Varint("timestamp"), Varint("channelLen"), Sized("channelBuf", "channelLen")>>), LAMBDA r :
  IF ~isArrayHashes(r.links) THEN Throw("LINKS_EXPECTED")
  ELSE IF r.postType # C_LEAVE_POST THEN ReturnError("postType")
  ELSE IF ~checkChannelName(r.channelBuf) THEN Throw("codepointRangeExpected channel")
  ELSE Return([publicKey |-> r.publicKey, signature |-> r.signature, links |-> r.links,
               postType |-> r.postType, channel |-> b4a_toString(r.channelBuf),
               timestamp |-> r.timestamp]))

\* the role is planned for but never written: the buffer ends in the bytes
\* b4a.alloc left at zero
ROLE_POST_frame(publicKey, links, channel, timestamp, recipient, role, reason, privacy) ==
  WriteFrame(determineBufferSize(<<B(PUBLICKEY_SIZE), B(SIGNATURE_SIZE), H(Len(links)),
                                   V(C_ROLE_POST), V(timestamp), S(Len(b4a_from(reason))),
                                   V(privacy), S(Len(b4a_from(channel))), B(PUBLICKEY_SIZE),
                                   V(role)>>),
             WPostHead(publicKey, links, C_ROLE_POST)
               \o <<WVarint(timestamp), WVarint(Len(b4a_from(reason))), WCopy(b4a_from(reason)),
                    WVarint(privacy), WVarint(Len(b4a_from(channel))), WCopy(b4a_from(channel)),
                    WCopy(recipient)>>)

ROLE_POST_create(publicKey, secretKey, links, channel, timestamp, recipient, role, reason, privacy) ==
  IF ~isBufferSize(publicKey, PUBLICKEY_SIZE) THEN Throw("bufferExpected publicKey")
  ELSE IF ~isBufferSize(secretKey, SECRETKEY_SIZE) THEN Throw("bufferExpected secretKey")
  ELSE IF ~isBufferSize(recipient, PUBLICKEY_SIZE) THEN Throw("bufferExpected recipient")
  ELSE IF ~isArrayHashes(links) THEN Throw("LINKS_EXPECTED")
  ELSE IF ~isInteger(timestamp) THEN Throw("integerExpected timestamp")
  ELSE IF ~isInteger(role) THEN Throw("integerExpected role")
  ELSE IF ~isInteger(privacy) THEN Throw("integerExpected privacy")
  ELSE IF ~checkChannelName(b4a_from(channel)) THEN Throw("codepointRangeExpected channel")
  ELSE IF ~checkReason(b4a_from(reason)) THEN Throw("codepointRangeExpected REASON")
  ELSE SignAndReturn(ROLE_POST_frame(publicKey, links, channel, timestamp, recipient, role,
                                     reason, privacy).frame,
                     publicKey, secretKey)

\* steps 6 to 11 shared by ROLE_POST.toJSON and MODERATION_POST.toJSON:
\* timestamp, reason, privacy, channel
ReasonChannel ==
  <<Varint("timestamp"), Varint("reasonLen"), Sized("reasonBuf", "reasonLen"),
    Varint("privacy"), Varint("channelLen"), Sized("channelBuf", "channelLen")>>

\* the returned literal names secretKey and role, which are not defined
ROLE_POST_toJSON(b) ==
  IF ~checkSignature(b, Slice(b, 0, PUBLICKEY_SIZE)) THEN Throw("signature")
  ELSE
  Bind(Read(b, Start, PostHead \o ReasonChannel \o
               <<SliceTo("recipient", PUBLICKEY_SIZE)>>), LAMBDA r :
  IF ~isArrayHashes(r.links) THEN Throw("LINKS_EXPECTED")
  ELSE IF r.postType # C_ROLE_POST THEN ReturnError("postType")
  ELSE IF ~checkReason(r.reasonBuf) THEN Throw("codepointRangeExpected REASON")
  ELSE IF ~checkChannelName(r.channelBuf) THEN Throw("codepointRangeExpected channel")
  ELSE Throw("ReferenceError secretKey"))

IsPostAction(action) ==
  action \in {ACTION_HIDE_POST, ACTION_UNHIDE_POST, ACTION_DROP_POST, ACTION_UNDROP_POST}

IsUserAction(action) == action \in {ACTION_HIDE_USER, ACTION_UNHIDE_USER}

\* no action is a channel action
IsChannelAction_none(action) == FALSE

IsChannelAction(action) == action \in {ACTION_DROP_CHANNEL, ACTION_UNDROP_CHANNEL}

\* the size is planned with MODERATION_POST, the tag written is ROLE_POST
MODERATION_POST_frame(publicKey, links, channel, timestamp, recipients, action, reason, privacy) ==
  WriteFrame(determineBufferSize(<<B(PUBLICKEY_SIZE), B(SIGNATURE_SIZE), H(Len(links)),
                                   V(C_MODERATION_POST), V(timestamp),
                                   S(Len(b4a_from(reason))), V(privacy),
                                   S(Len(b4a_from(channel))), H(Len(recipients)), V(action)>>),
             WPostHead(publicKey, links, C_ROLE_POST)
               \o <<WVarint(timestamp), WVarint(Len(b4a_from(reason))), WCopy(b4a_from(reason)),
                    WVarint(privacy), WVarint(Len(b4a_from(channel))), WCopy(b4a_from(channel)),
                    WVarint(Len(recipients))>>
               \o WCopyEach(recipients) \o <<WVarint(action)>>)

MODERATION_POST_create(publicKey, secretKey, links, channel, timestamp, recipients, action, reason, privacy) ==
  IF ~isBufferSize(publicKey, PUBLICKEY_SIZE) THEN Throw("bufferExpected publicKey")
  ELSE IF ~isBufferSize(secretKey, SECRETKEY_SIZE) THEN Throw("bufferExpected secretKey")
  ELSE IF ~isArrayHashes(links) THEN Throw("LINKS_EXPECTED")
  ELSE IF ~isInteger(action) THEN Throw("integerExpected action")
  ELSE IF IsPostAction(action) /\ ~isArrayHashes(recipients) THEN Throw("ARRAY_POSTS_EXPECTED")
  ELSE IF IsUserAction(action) /\ ~isArrayPublicKeys(recipients) THEN Throw("ARRAY_KEYS_EXPECTED")
  ELSE IF IsChannelAction(action) /\ Len(recipients) > 0 THEN Throw("EMPTY_RECIPIENTS_EXPECTED")
  ELSE IF ~isInteger(timestamp) THEN Throw("integerExpected timestamp")
  ELSE IF ~isInteger(privacy) THEN Throw("integerExpected privacy")
  ELSE IF ~checkChannelName(b4a_from(channel)) THEN Throw("codepointRangeExpected channel")
  ELSE IF ~checkReason(b4a_from(reason)) THEN Throw("codepointRangeExpected REASON")
  ELSE IF ~checkRecipientsLength(recipients) THEN Throw("recipients length")
  ELSE SignAndReturn(MODERATION_POST_frame(publicKey, links, channel, timestamp, recipients,
                                           action, reason, privacy).frame,
                     publicKey, secretKey)

MODERATION_POST_toJSON(b) ==
  IF ~checkSignature(b, Slice(b, 0, PUBLICKEY_SIZE)) THEN Throw("signature")
  ELSE
  Bind(Read(b, Start, PostHead \o ReasonChannel \o
               <<Varint("recipientCount"), List("recipients", "recipientCount", HASH_SIZE),
                 Varint("action")>>), LAMBDA r :
  IF ~isArrayHashes(r.links) THEN Throw("LINKS_EXPECTED")
  ELSE IF r.postType # C_ROLE_POST THEN ReturnError("postType")
  ELSE IF ~checkReason(r.reasonBuf) THEN Throw("codepointRangeExpected REASON")
  ELSE IF ~checkChannelName(r.channelBuf) THEN Throw("codepointRangeExpected channel")
  ELSE IF ~checkRecipientsLength(r.recipients) THEN Throw("recipients length")
  ELSE IF IsPostAction(r.action) /\ ~isArrayHashes(r.recipients) THEN Throw("ARRAY_POSTS_EXPECTED")
  ELSE IF IsUserAction(r.action) /\ ~isArrayPublicKeys(r.recipients) THEN Throw("ARRAY_KEYS_EXPECTED")
  ELSE IF IsChannelAction(r.action) /\ Len(r.recipients) > 0 THEN Throw("EMPTY_RECIPIENTS_EXPECTED")
  ELSE Throw("ReferenceError secretKey"))

BLOCK_POST_frame(publicKey, links, timestamp, recipients, drop, notify, reason, privacy) ==
  WriteFrame(determineBufferSize(<<B(PUBLICKEY_SIZE), B(SIGNATURE_SIZE), H(Len(links)),
                                   V(C_BLOCK_POST), V(timestamp), S(Len(b4a_from(reason))),
                                   V(privacy), H(Len(recipients)), V(drop), V(notify)>>),
             WPostHead(publicKey, links, C_BLOCK_POST)
               \o <<WVarint(timestamp), WVarint(Len(b4a_from(reason))), WCopy(b4a_from(reason)),
                    WVarint(privacy), WVarint(Len(recipients))>>
               \o WCopyEach(recipients) \o <<WVarint(drop), WVarint(notify)>>)

BLOCK_POST_create(publicKey, secretKey, links, timestamp, recipients, drop, notify, reason, privacy) ==
  IF ~isBufferSize(publicKey, PUBLICKEY_SIZE) THEN Throw("bufferExpected publicKey")
  ELSE IF ~isBufferSize(secretKey, SECRETKEY_SIZE) THEN Throw("bufferExpected secretKey")
  ELSE IF ~isArrayHashes(links) THEN Throw("LINKS_EXPECTED")
  ELSE IF ~isArrayPublicKeys(recipients) THEN Throw("ARRAY_KEYS_EXPECTED")
  ELSE IF ~isInteger(timestamp) THEN Throw("integerExpected timestamp")
  ELSE IF ~isInteger(notify) THEN Throw("integerExpected notify")
  ELSE IF ~isInteger(drop) THEN Throw("integerExpected drop")
  ELSE IF ~isInteger(privacy) THEN Throw("integerExpected privacy")
  ELSE IF ~checkReason(b4a_from(reason)) THEN Throw("codepointRangeExpected REASON")
  ELSE IF ~checkRecipientsLength(recipients) THEN Throw("recipients length")
  ELSE SignAndReturn(BLOCK_POST_frame(publicKey, links, timestamp, recipients, drop, notify,
                                      reason, privacy).frame,
                     publicKey, secretKey)

\* steps 6 to 10 shared by BLOCK_POST.toJSON and UNBLOCK_POST.toJSON:
\* timestamp, reason, privacy, recipients
ReasonRecipients ==
  <<Varint("timestamp"), Varint("reasonLen"), Sized("reasonBuf", "reasonLen"),
    Varint("privacy"), Varint("recipientCount"),
    List("recipients", "recipientCount", PUBLICKEY_SIZE)>>

\* the returned literal names secretKey, which is not defined
BLOCK_POST_toJSON(b) ==
  IF ~checkSignature(b, Slice(b, 0, PUBLICKEY_SIZE)) THEN Throw("signature")
  ELSE
  Bind(Read(b, Start, PostHead \o ReasonRecipients \o
               <<Varint("drop"), Varint("notify")>>), LAMBDA r :
  IF ~isArrayHashes(r.links) THEN Throw("LINKS_EXPECTED")
  ELSE IF r.postType # C_BLOCK_POST THEN ReturnError("postType")
  ELSE IF ~checkReason(r.reasonBuf) THEN Throw("codepointRangeExpected REASON")
  ELSE IF ~isArrayPublicKeys(r.recipients) THEN Throw("ARRAY_KEYS_EXPECTED")
  ELSE IF ~checkRecipientsLength(r.recipients) THEN Throw("recipients length")
  ELSE Throw("ReferenceError secretKey"))

UNBLOCK_POST_frame(publicKey, links, timestamp, recipients, undrop, reason, privacy) ==
  WriteFrame(determineBufferSize(<<B(PUBLICKEY_SIZE), B(SIGNATURE_SIZE), H(Len(links)),
                                   V(C_UNBLOCK_POST), V(timestamp), S(Len(b4a_from(reason))),
                                   V(privacy), H(Len(recipients)), V(undrop)>>),
             WPostHead(publicKey, links, C_UNBLOCK_POST)
               \o <<WVarint(timestamp), WVarint(Len(b4a_from(reason))), WCopy(b4a_from(reason)),
                    WVarint(privacy), WVarint(Len(recipients))>>
               \o WCopyEach(recipients) \o <<WVarint(undrop)>>)

\* argc is arguments.length.  The function declares eight parameters and
\* demands nine arguments; with nine, the check of the undeclared notify
\* raises a ReferenceError once the checks before it have passed.
UNBLOCK_POST_create(argc, publicKey, secretKey, links, timestamp, recipients, undrop, reason, privacy) ==
  IF argc # 9 THEN Throw("wrongNumberArguments")
  ELSE IF ~isBufferSize(publicKey, PUBLICKEY_SIZE) THEN Throw("bufferExpected publicKey")
  ELSE IF ~isBufferSize(secretKey, SECRETKEY_SIZE) THEN Throw("bufferExpected secretKey")
  ELSE IF ~isArrayHashes(links) THEN Throw("LINKS_EXPECTED")
  ELSE IF ~isArrayPublicKeys(recipients) THEN Throw("ARRAY_KEYS_EXPECTED")
  ELSE IF ~isInteger(timestamp) THEN Throw("integerExpected timestamp")
  ELSE Throw("ReferenceError notify")

UNBLOCK_POST_toJSON(b) ==
  IF ~checkSignature(b, Slice(b, 0, PUBLICKEY_SIZE)) THEN Throw("signature")
  ELSE
  Bind(Read(b, Start, PostHead \o ReasonRecipients \o <<Varint("undrop")>>), LAMBDA r :
  IF ~isArrayHashes(r.links) THEN Throw("LINKS_EXPECTED")
  ELSE IF r.postType # C_UNBLOCK_POST THEN ReturnError("postType")
  ELSE IF ~checkReason(r.reasonBuf) THEN Throw("codepointRangeExpected REASON")
  ELSE IF ~isArrayPublicKeys(r.recipients) THEN Throw("ARRAY_KEYS_EXPECTED")
  ELSE IF ~checkRecipientsLength(r.recipients) THEN Throw("recipients length")
  ELSE Throw("ReferenceError secretKey"))

(***************************************************************************)
(* The codec as a state machine.  A behaviour is one buffer's life: it is   *)
(* made by a create call (or arrives from a peer), may be relayed through   *)
(* decrementTTL, cut short or altered in transit, and is decoded.           *)
(*   op    the last operation                                               *)
(*   typ   the class whose create made the buffer                           *)
(*   src   "create" when this process made it, "receive" when a peer did    *)
(*   args  the arguments of that create, by parameter name                  *)
(*   buf   the buffer as it is now                                          *)
(*   out   the outcome of the last create, receive or decrementTTL          *)
(*   dec   the last decoder applied, its outcome, and the operation the     *)
(*         decoded buffer came from                                         *)
(*   hops  the decrementTTL calls that returned since create                *)
(*   calls the create and toJSON calls in progress, statement by statement  *)
(*   bytes varint.decode.bytes and varint.encode.bytes, the two properties  *)
(*         of the varint package that every call of the module shares       *)
(***************************************************************************)
MaxHashes == 4

MaxChannels == 2

\* new Error(`parse post: unknown post type (${postType})`), thrown
UnknownType(postType) ==
  [kind |-> "throw", err |-> "parse post: unknown post type", type |-> postType]

parsePost(b) ==
  Bind(peekPost(b), LAMBDA postType :
    CASE postType = C_TEXT_POST -> TEXT_POST_toJSON(b)
      [] postType = C_DELETE_POST -> DELETE_POST_toJSON(b)
      [] postType = C_INFO_POST -> INFO_POST_toJSON(b)
      [] postType = C_TOPIC_POST -> TOPIC_POST_toJSON(b)
      [] postType = C_JOIN_POST -> JOIN_POST_toJSON(b)
      [] postType = C_LEAVE_POST -> LEAVE_POST_toJSON(b)
      [] OTHER -> UnknownType(postType))

\* the default branch names postType, which parseMessage does not declare
parseMessage(b) ==
  Bind(peekMessage(b), LAMBDA msgType :
    CASE msgType = C_HASH_RESPONSE -> HASH_RESPONSE_toJSON(b)
      [] msgType = C_POST_RESPONSE -> POST_RESPONSE_toJSON(b)
      [] msgType = C_POST_REQUEST -> POST_REQUEST_toJSON(b)
      [] msgType = C_CANCEL_REQUEST -> CANCEL_REQUEST_toJSON(b)
      [] msgType = C_TIME_RANGE_REQUEST -> TIME_RANGE_REQUEST_toJSON(b)
      [] msgType = C_CHANNEL_STATE_REQUEST -> CHANNEL_STATE_REQUEST_toJSON(b)
      [] msgType = C_CHANNEL_LIST_REQUEST -> CHANNEL_LIST_REQUEST_toJSON(b)
      [] msgType = C_CHANNEL_LIST_RESPONSE -> CHANNEL_LIST_RESPONSE_toJSON(b)
      [] OTHER -> Throw("ReferenceError postType is not defined"))

MaxHops == 17

MessageTypes ==
  {"HASH_RESPONSE", "POST_RESPONSE", "POST_REQUEST", "CANCEL_REQUEST", "TIME_RANGE_REQUEST",
   "CHANNEL_STATE_REQUEST", "CHANNEL_LIST_REQUEST", "CHANNEL_LIST_RESPONSE",
   "MODERATION_STATE_REQUEST"}

PostTypes ==
  {"TEXT_POST", "DELETE_POST", "INFO_POST", "TOPIC_POST", "JOIN_POST", "LEAVE_POST",
   "ROLE_POST", "MODERATION_POST", "BLOCK_POST", "UNBLOCK_POST"}

\* the classes whose messages carry a ttl field
TTLTypes ==
  {"POST_REQUEST", "CANCEL_REQUEST", "TIME_RANGE_REQUEST", "CHANNEL_STATE_REQUEST",
   "CHANNEL_LIST_REQUEST"}

\* the classes that define decrementTTL
RelayTypes ==
  {"POST_REQUEST", "TIME_RANGE_REQUEST", "CHANNEL_STATE_REQUEST", "CHANNEL_LIST_REQUEST"}

ChannelTypes == {"TIME_RANGE_REQUEST", "CHANNEL_STATE_REQUEST"}

TagOf(T) ==
  CASE T = "HASH_RESPONSE" -> C_HASH_RESPONSE
    [] T = "POST_RESPONSE" -> C_POST_RESPONSE
    [] T = "POST_REQUEST" -> C_POST_REQUEST
    [] T = "CANCEL_REQUEST" -> C_CANCEL_REQUEST
    [] T = "TIME_RANGE_REQUEST" -> C_TIME_RANGE_REQUEST
    [] T = "CHANNEL_STATE_REQUEST" -> C_CHANNEL_STATE_REQUEST
    [] T = "CHANNEL_LIST_REQUEST" -> C_CHANNEL_LIST_REQUEST
    [] T = "CHANNEL_LIST_RESPONSE" -> C_CHANNEL_LIST_RESPONSE
    [] T = "MODERATION_STATE_REQUEST" -> C_MODERATION_STATE_REQUEST
    [] T = "TEXT_POST" -> C_TEXT_POST
    [] T = "DELETE_POST" -> C_DELETE_POST
    [] T = "INFO_POST" -> C_INFO_POST
    [] T = "TOPIC_POST" -> C_TOPIC_POST
    [] T = "JOIN_POST" -> C_JOIN_POST
    [] T = "LEAVE_POST" -> C_LEAVE_POST
    [] T = "ROLE_POST" -> C_ROLE_POST
    [] T = "MODERATION_POST" -> C_MODERATION_POST
    [] T = "BLOCK_POST" -> C_BLOCK_POST
    [] T = "UNBLOCK_POST" -> C_UNBLOCK_POST

\* the tag T.toJSON compares the decoded tag with
CheckedTag(T) == IF T = "MODERATION_POST" THEN C_ROLE_POST ELSE TagOf(T)

CreateOf(T, a) ==
  CASE T = "HASH_RESPONSE" -> HASH_RESPONSE_create(a.reqid, a.hashes)
    [] T = "POST_RESPONSE" -> POST_RESPONSE_create(a.reqid, a.posts)
    [] T = "POST_REQUEST" -> POST_REQUEST_create(a.reqid, a.ttl, a.hashes)
    [] T = "CANCEL_REQUEST" -> CANCEL_REQUEST_create(a.reqid, a.ttl, a.cancelid)
    [] T = "TIME_RANGE_REQUEST" ->
         TIME_RANGE_REQUEST_create(a.reqid, a.ttl, a.channel, a.timeStart, a.timeEnd, a.limit)
    [] T = "CHANNEL_STATE_REQUEST" ->
         CHANNEL_STATE_REQUEST_create(a.reqid, a.ttl, a.channel, a.future)
    [] T = "CHANNEL_LIST_REQUEST" ->
         CHANNEL_LIST_REQUEST_create(a.reqid, a.ttl, a.offset, a.limit)
    [] T = "CHANNEL_LIST_RESPONSE" -> CHANNEL_LIST_RESPONSE_create(a.reqid, a.channels)
    [] T = "MODERATION_STATE_REQUEST" ->
         (IF a.argc = 5
          THEN MODERATION_STATE_REQUEST_create(5, a.reqid, a.ttl, a.channels, a.future)
          ELSE MODERATION_STATE_REQUEST_create(4, a.reqid, a.channels, a.future, a.oldest))
    [] T = "TEXT_POST" ->
         TEXT_POST_create(a.publicKey, a.secretKey, a.links, a.channel, a.timestamp, a.text)
    [] T = "DELETE_POST" ->
         DELETE_POST_create(a.publicKey, a.secretKey, a.links, a.timestamp, a.hashes)
    [] T = "INFO_POST" ->
         (IF a.argc = 5
          THEN INFO_POST_create(5, a.publicKey, a.secretKey, a.links, a.timestamp,
                                a.pairs, Undefined)
          ELSE INFO_POST_create(6, a.publicKey, a.secretKey, a.links, a.timestamp,
                                a.key, a.value))
    [] T = "TOPIC_POST" ->
         TOPIC_POST_create(a.publicKey, a.secretKey, a.links, a.channel, a.timestamp, a.topic)
    [] T = "JOIN_POST" ->
         JOIN_POST_create(a.publicKey, a.secretKey, a.links, a.channel, a.timestamp)
    [] T = "LEAVE_POST" ->
         LEAVE_POST_create(a.publicKey, a.secretKey, a.links, a.channel, a.timestamp)
    [] T = "ROLE_POST" ->
         ROLE_POST_create(a.publicKey, a.secretKey, a.links, a.channel, a.timestamp,
                          a.recipient, a.role, a.reason, a.privacy)
    [] T = "MODERATION_POST" ->
         MODERATION_POST_create(a.publicKey, a.secretKey, a.links, a.channel, a.timestamp,
                                a.recipients, a.action, a.reason, a.privacy)
    [] T = "BLOCK_POST" ->
         BLOCK_POST_create(a.publicKey, a.secretKey, a.links, a.timestamp, a.recipients,
                           a.drop, a.notify, a.reason, a.privacy)
    [] T = "UNBLOCK_POST" ->
         UNBLOCK_POST_create(a.argc, a.publicKey, a.secretKey, a.links, a.timestamp,
                             a.recipients, a.undrop, a.reason, a.privacy)

\* the frame T.create allocates and writes for the arguments a, which is
\* also what a peer that skips the argument checks puts on the wire
FrameOf(T, a) ==
  CASE T = "HASH_RESPONSE" -> HASH_RESPONSE_frame(a.reqid, a.hashes)
    [] T = "POST_RESPONSE" -> POST_RESPONSE_frame(a.reqid, a.posts)
    [] T = "POST_REQUEST" -> POST_REQUEST_frame(a.reqid, a.ttl, a.hashes)
    [] T = "CANCEL_REQUEST" -> CANCEL_REQUEST_frame(a.reqid, a.ttl, a.cancelid)
    [] T = "TIME_RANGE_REQUEST" ->
         TIME_RANGE_REQUEST_frame(a.reqid, a.ttl, a.channel, a.timeStart, a.timeEnd, a.limit)
    [] T = "CHANNEL_STATE_REQUEST" ->
         CHANNEL_STATE_REQUEST_frame(a.reqid, a.ttl, a.channel, a.future)
    [] T = "CHANNEL_LIST_REQUEST" ->
         CHANNEL_LIST_REQUEST_frame(a.reqid, a.ttl, a.offset, a.limit)
    [] T = "CHANNEL_LIST_RESPONSE" -> CHANNEL_LIST_RESPONSE_frame(a.reqid, a.channels)
    [] T = "MODERATION_STATE_REQUEST" ->
         MODERATION_STATE_REQUEST_frame(a.reqid, a.channels, a.future, a.oldest)
    [] T = "TEXT_POST" -> TEXT_POST_frame(a.publicKey, a.links, a.channel, a.timestamp, a.text)
    [] T = "DELETE_POST" -> DELETE_POST_frame(a.publicKey, a.links, a.timestamp, a.hashes)
    [] T = "INFO_POST" -> INFO_POST_frame(a.publicKey, a.links, a.timestamp, a.key, a.value)
    [] T = "TOPIC_POST" -> TOPIC_POST_frame(a.publicKey, a.links, a.channel, a.timestamp, a.topic)
    [] T = "JOIN_POST" -> JOIN_POST_frame(a.publicKey, a.links, a.channel, a.timestamp)
    [] T = "LEAVE_POST" -> LEAVE_POST_frame(a.publicKey, a.links, a.channel, a.timestamp)
    [] T = "ROLE_POST" ->
         ROLE_POST_frame(a.publicKey, a.links, a.channel, a.timestamp, a.recipient, a.role,
                         a.reason, a.privacy)
    [] T = "MODERATION_POST" ->
         MODERATION_POST_frame(a.publicKey, a.links, a.channel, a.timestamp, a.recipients,
                               a.action, a.reason, a.privacy)
    [] T = "BLOCK_POST" ->
         BLOCK_POST_frame(a.publicKey, a.links, a.timestamp, a.recipients, a.drop, a.notify,
                          a.reason, a.privacy)
    [] T = "UNBLOCK_POST" ->
         UNBLOCK_POST_frame(a.publicKey, a.links, a.timestamp, a.recipients, a.undrop,
                            a.reason, a.privacy)

ToJSONOf(T, b) ==
  CASE T = "HASH_RESPONSE" -> HASH_RESPONSE_toJSON(b)
    [] T = "POST_RESPONSE" -> POST_RESPONSE_toJSON(b)
    [] T = "POST_REQUEST" -> POST_REQUEST_toJSON(b)
    [] T = "CANCEL_REQUEST" -> CANCEL_REQUEST_toJSON(b)
    [] T = "TIME_RANGE_REQUEST" -> TIME_RANGE_REQUEST_toJSON(b)
    [] T = "CHANNEL_STATE_REQUEST" -> CHANNEL_STATE_REQUEST_toJSON(b)
    [] T = "CHANNEL_LIST_REQUEST" -> CHANNEL_LIST_REQUEST_toJSON(b)
    [] T = "CHANNEL_LIST_RESPONSE" -> CHANNEL_LIST_RESPONSE_toJSON(b)
    [] T = "MODERATION_STATE_REQUEST" -> MODERATION_STATE_REQUEST_toJSON(b)
    [] T = "TEXT_POST" -> TEXT_POST_toJSON(b)
    [] T = "DELETE_POST" -> DELETE_POST_toJSON(b)
    [] T = "INFO_POST" -> INFO_POST_toJSON(b)
    [] T = "TOPIC_POST" -> TOPIC_POST_toJSON(b)
    [] T = "JOIN_POST" -> JOIN_POST_toJSON(b)
    [] T = "LEAVE_POST" -> LEAVE_POST_toJSON(b)
    [] T = "ROLE_POST" -> ROLE_POST_toJSON(b)
    [] T = "MODERATION_POST" -> MODERATION_POST_toJSON(b)
    [] T = "BLOCK_POST" -> BLOCK_POST_toJSON(b)
    [] T = "UNBLOCK_POST" -> UNBLOCK_POST_toJSON(b)

DecrementTTLOf(T, b) ==
  CASE T = "POST_REQUEST" -> POST_REQUEST_decrementTTL(b)
    [] T = "CANCEL_REQUEST" -> CANCEL_REQUEST_decrementTTL(b)
    [] T = "TIME_RANGE_REQUEST" -> TIME_RANGE_REQUEST_decrementTTL(b)
    [] T = "CHANNEL_STATE_REQUEST" -> CHANNEL_STATE_REQUEST_decrementTTL(b)
    [] T = "CHANNEL_LIST_REQUEST" -> CHANNEL_LIST_REQUEST_decrementTTL(b)

MaxPosts == 2

Reqid == <<4, 186, 175, 251>>

Cancelid == <<49, 181, 201, 225>>

\* the first n of a fixed sequence of distinct hashes
HashList(n) == [i \in 1..n |-> Rep(7 * i, HASH_SIZE)]

PostList(n) == [i \in 1..n |-> Rep(i, i + 2)]

\* lists of short posts, a post whose postLen takes two bytes, and a list
\* whose first entry is a buffer of length 0
PostLists ==
  {PostList(n) : n \in 0..MaxPosts} \cup {<<Rep(5, 130), <<9>>>>, <<<<>>, <<1, 1, 1>>>>}

\* "aé", "bé", ...
ChannelList(n) == [i \in 1..n |-> <<96 + i, 233>>]

\* the future arguments given to create
Futures == {0, 1, 100}

\* the classes whose messages carry a future field
FutureTypes == {"CHANNEL_STATE_REQUEST", "MODERATION_STATE_REQUEST"}

\* the ttl arguments given to create
TTLs == {-1, 0, 1, 2, 16, 17}

\* the ttl values a peer may put on the wire in violation of the range
ForgedTTLs == {17, 127, 128, 300}

\* "", "a", a name of 1-, 2-, 3- and 4-byte codepoints, 64 one-byte
\* codepoints, 64 two-byte codepoints, 65 one-byte codepoints
ChannelNames ==
  {<<>>, <<97>>, <<97, 233, 8364, 128512>>, Rep(97, CHANNEL_NAME_MAX_CODEPOINTS),
   Rep(233, CHANNEL_NAME_MAX_CODEPOINTS), Rep(97, CHANNEL_NAME_MAX_CODEPOINTS + 1)}

ChannelLists ==
  {ChannelList(n) : n \in 0..MaxChannels}
    \cup {<<<<>>>>, <<<<97>>, Rep(97, CHANNEL_NAME_MAX_CODEPOINTS + 1)>>,
          <<Rep(233, CHANNEL_NAME_MAX_CODEPOINTS)>>}

MaxLinks == 2

\* a key pair: the secret key is a 32-byte seed followed by the public key
PublicKey == [i \in 1..PUBLICKEY_SIZE |-> 3 * i]

SecretKey == Rep(9, SECRETKEY_SIZE - PUBLICKEY_SIZE) \o PublicKey

Timestamps == {1, 300}

\* "", "a", a name of 1-, 2-, 3- and 4-byte codepoints, 65 one-byte codepoints
PostChannels == {<<>>, <<97>>, <<97, 233, 8364, 128512>>, Rep(97, CHANNEL_NAME_MAX_CODEPOINTS + 1)}

\* "" and a text of 1-, 2- and 3-byte codepoints
Texts == {<<>>, <<104, 233, 8364>>}

\* lists of [key, value] pairs: name alone; name and "b" together
PairLists ==
  {<<<<KEY_NAME, <<104, 233, 8364>>>>>>,
   <<<<KEY_NAME, <<104, 233, 8364>>>>, <<<<98>>, <<49>>>>>>}

\* the first n of a fixed sequence of distinct public keys or post hashes
KeyList(n) == [i \in 1..n |-> Rep(100 + i, PUBLICKEY_SIZE)]

RecipientCounts == {0, 1, 2, RECIPIENT_COUNT_MAX + 1}

\* lists of 0, 1, 2 and 17 recipients of 32 bytes, and one recipient that
\* is a byte short of a hash or public key
ModerationRecipients ==
  {KeyList(k) : k \in RecipientCounts} \cup {<<Rep(101, PUBLICKEY_SIZE - 1)>>}

Actions ==
  {ACTION_HIDE_USER, ACTION_UNHIDE_USER, ACTION_HIDE_POST, ACTION_UNHIDE_POST,
   ACTION_DROP_POST, ACTION_UNDROP_POST, ACTION_DROP_CHANNEL, ACTION_UNDROP_CHANNEL}

\* the arguments every post create takes first
Author(n) == [publicKey |-> PublicKey, secretKey |-> SecretKey, links |-> HashList(n)]

Inputs(T) ==
  CASE T = "HASH_RESPONSE" ->
         {[reqid |-> Reqid, hashes |-> HashList(n)] : n \in 0..MaxHashes}
    [] T = "POST_RESPONSE" ->
         {[reqid |-> Reqid, posts |-> p] : p \in PostLists}
    [] T = "POST_REQUEST" ->
         {[reqid |-> Reqid, ttl |-> t, hashes |-> HashList(n)] : t \in TTLs, n \in 0..MaxHashes}
    [] T = "CANCEL_REQUEST" ->
         {[reqid |-> Reqid, ttl |-> t, cancelid |-> Cancelid] : t \in TTLs}
    [] T = "TIME_RANGE_REQUEST" ->
         {[reqid |-> Reqid, ttl |-> t, channel |-> c, timeStart |-> i[1], timeEnd |-> i[2],
           limit |-> i[3]] : t \in TTLs, c \in ChannelNames, i \in {<<0, 0, 0>>, <<1, 128, 300>>}}
    [] T = "CHANNEL_STATE_REQUEST" ->
         {[reqid |-> Reqid, ttl |-> t, channel |-> c, future |-> f] :
            t \in TTLs, c \in ChannelNames, f \in Futures}
    [] T = "CHANNEL_LIST_REQUEST" ->
         {[reqid |-> Reqid, ttl |-> t, offset |-> i[1], limit |-> i[2]] :
            t \in TTLs, i \in {<<0, 0>>, <<128, 20>>, <<1, 300>>, <<127, 128>>}}
    [] T = "CHANNEL_LIST_RESPONSE" ->
         {[reqid |-> Reqid, channels |-> cl] : cl \in ChannelLists}
    [] T = "MODERATION_STATE_REQUEST" ->
         {[argc |-> 4, reqid |-> Reqid, channels |-> cl, future |-> f, oldest |-> o] :
            cl \in ChannelLists, f \in Futures, o \in {0, 300}}
           \cup {[argc |-> 5, reqid |-> Reqid, ttl |-> 1, channels |-> ChannelList(n),
                   future |-> f, oldest |-> o] :
                   n \in 0..MaxChannels, f \in {0, 1}, o \in {0, 300}}
    [] T = "TEXT_POST" ->
         {Author(n) @@ [channel |-> c, timestamp |-> t, text |-> x] :
            n \in 0..MaxLinks, c \in PostChannels, t \in Timestamps, x \in Texts}
    [] T = "DELETE_POST" ->
         {Author(n) @@ [timestamp |-> t, hashes |-> KeyList(m)] :
            n \in 0..MaxLinks, t \in Timestamps, m \in 0..2}
    [] T = "INFO_POST" ->
         {Author(n) @@ [argc |-> 6, timestamp |-> t, key |-> k, value |-> x] :
            n \in 0..MaxLinks, t \in Timestamps, k \in {KEY_NAME, <<98>>}, x \in Texts}
           \cup {Author(n) @@ [argc |-> 5, timestamp |-> t, pairs |-> p] :
                   n \in 0..MaxLinks, t \in Timestamps, p \in PairLists}
    [] T = "TOPIC_POST" ->
         {Author(n) @@ [channel |-> c, timestamp |-> t, topic |-> x] :
            n \in 0..MaxLinks, c \in PostChannels, t \in Timestamps, x \in Texts}
    [] T \in {"JOIN_POST", "LEAVE_POST"} ->
         {Author(n) @@ [channel |-> c, timestamp |-> t] :
            n \in 0..MaxLinks, c \in PostChannels, t \in Timestamps}
    [] T = "ROLE_POST" ->
         {Author(n) @@ [channel |-> c, timestamp |-> t, recipient |-> KeyList(1)[1],
                        role |-> 1, reason |-> x, privacy |-> 0] :
            n \in 0..MaxLinks, c \in PostChannels, t \in Timestamps, x \in Texts}
    [] T = "MODERATION_POST" ->
         {Author(n) @@ [channel |-> c, timestamp |-> 300, recipients |-> r,
                        action |-> a, reason |-> <<114>>, privacy |-> 0] :
            n \in 0..MaxLinks, c \in PostChannels, r \in ModerationRecipients,
            a \in Actions}
    [] T = "BLOCK_POST" ->
         {Author(n) @@ [timestamp |-> 300, recipients |-> KeyList(k), drop |-> d,
                        notify |-> 1, reason |-> <<114>>, privacy |-> 0] :
            n \in 0..MaxLinks, k \in RecipientCounts, d \in {0, 1}}
    [] T = "UNBLOCK_POST" ->
         {Author(n) @@ [argc |-> c, timestamp |-> 300, recipients |-> KeyList(k),
                        undrop |-> 1, reason |-> <<114>>, privacy |-> 0] :
            n \in 0..MaxLinks, k \in RecipientCounts, c \in {8, 9}}

\* what a peer may send that create would have refused: a ttl out of range,
\* a channel name out of range
Forged(T) ==
  (IF T \in TTLTypes
   THEN {[a EXCEPT !.ttl = t] : t \in ForgedTTLs,
                                a \in {x \in Inputs(T) : x.ttl = 1 /\ Returned(CreateOf(T, x))}}
   ELSE {})
    \cup (IF T \in ChannelTypes
          THEN {a \in Inputs(T) : a.ttl = 1 /\ ~checkChannelName(b4a_from(a.channel))}
          ELSE {})

\* the moderation posts a peer may sign and send that create would have
\* refused: a channel action with one or two recipients
ForgedPosts ==
  {a \in Inputs("MODERATION_POST") :
     /\ a.action \in {ACTION_DROP_CHANNEL, ACTION_UNDROP_CHANNEL}
     /\ a.recipients \in {KeyList(1), KeyList(2)}
     /\ checkChannelName(b4a_from(a.channel))}

\* the first byte after the public key and the signature
MinTamperOffset == PUBLICKEY_SIZE + SIGNATURE_SIZE

\* what is added (modulo 256) to the byte that changes
Deltas == {1, 128}

NoOutcome == Throw("none")

NoDecode == [by |-> "none", res |-> NoOutcome, after |-> "init"]

\* the calls that may be in progress together
Procs == {1, 2}

Idle == [kind |-> "none", b |-> <<>>, steps |-> <<>>, i |-> 0, r |-> Start, pc |-> "idle"]

Init ==
  /\ op = "init"
  /\ typ = "none"
  /\ src = "none"
  /\ args = [reqid |-> <<>>]
  /\ buf = <<>>
  /\ out = NoOutcome
  /\ dec = NoDecode
  /\ hops = 0
  /\ calls = [p \in Procs |-> Idle]
  /\ bytes = [decode |-> 0, encode |-> 0]

\* T.create(...) called with one of the argument tuples
Create(T) ==
  /\ op = "init"
  /\ \E a \in Inputs(T) :
       /\ args' = a
       /\ out' = CreateOf(T, a)
       /\ buf' = IF Returned(out') THEN out'.val ELSE <<>>
  /\ op' = "create"
  /\ typ' = T
  /\ src' = "create"
  /\ UNCHANGED <<dec, hops, calls, bytes>>

\* a buffer arrives from a peer that did not run create's checks
Receive(T) ==
  /\ op = "init"
  /\ \E a \in Forged(T) :
       /\ args' = a
       /\ buf' = prependMsgLen(FrameOf(T, a).frame)
       /\ out' = Return(buf')
  /\ op' = "receive"
  /\ typ' = T
  /\ src' = "receive"
  /\ UNCHANGED <<dec, hops, calls, bytes>>

\* a signed moderation post arrives from a peer that did not run create's
\* checks
ReceivePost ==
  /\ op = "init"
  /\ \E a \in ForgedPosts :
       /\ args' = a
       /\ buf' = sign(MODERATION_POST_frame(a.publicKey, a.links, a.channel, a.timestamp,
                                           a.recipients, a.action, a.reason, a.privacy).frame,
                      a.secretKey)
       /\ out' = Return(buf')
  /\ op' = "receive"
  /\ typ' = "MODERATION_POST"
  /\ src' = "receive"
  /\ UNCHANGED <<dec, hops, calls, bytes>>

\* the bytes a peer may leave off the end of a frame
MaxCut == 3

\* a peer sends the frame of a message less its last bytes, behind the
\* msgLen of what is left
ReceiveCut ==
  /\ op = "create"
  /\ Returned(out)
  /\ typ \in MessageTypes
  /\ \E k \in 1..MaxCut :
       buf' = prependMsgLen(Slice(buf, decodeVarintSlice(buf, 0).bytes, Len(buf) - k))
  /\ out' = Return(buf')
  /\ op' = "cut"
  /\ src' = "receive"
  /\ UNCHANGED <<typ, args, dec, hops, calls, bytes>>

\* the classes whose first field after the header (and the ttl) is a count
\* of hashes or the length of a post or channel name
LengthTypes == MessageTypes \ {"CANCEL_REQUEST", "CHANNEL_LIST_REQUEST"}

HashCountTypes == {"HASH_RESPONSE", "POST_REQUEST"}

\* the offset of that field
LengthOffset(T, b) ==
  Read(b, Start, MessageHead \o (IF T \in TTLTypes THEN <<Varint("ttl")>> ELSE <<>>)).offset

\* what a peer adds to the count or length it declares
LengthDeltas == {1, 50}

\* a peer sends a message whose first count or length is more than create
\* wrote, the rest of the buffer being the same
ReceiveLength ==
  /\ op = "create"
  /\ Returned(out)
  /\ typ \in LengthTypes
  /\ \E d \in LengthDeltas : buf' = [buf EXCEPT ![LengthOffset(typ, buf) + 1] = (@ + d) % 256]
  /\ out' = Return(buf')
  /\ op' = "length"
  /\ src' = "receive"
  /\ UNCHANGED <<typ, args, dec, hops, calls, bytes>>

\* T.decrementTTL(buf) at a relaying peer
DecrementTTL ==
  /\ \/ op \in {"create", "receive", "decrementTTL"}
     \/ op = "truncate" /\ Len(out.val) - Len(buf) <= MaxCut
  /\ Returned(out)
  /\ typ \in TTLTypes
  /\ hops < MaxHops
  /\ out' = DecrementTTLOf(typ, buf)
  /\ buf' = IF Returned(out') THEN out'.val ELSE buf
  /\ hops' = IF Returned(out') THEN hops + 1 ELSE hops
  /\ op' = "decrementTTL"
  /\ UNCHANGED <<typ, src, args, dec, calls, bytes>>

\* the buffer is cut short in transit: a proper prefix remains
Truncate ==
  /\ op = "create"
  /\ Returned(out)
  /\ typ \in MessageTypes
  /\ \E n \in 0..(Len(buf) - 1) : buf' = SubSeq(buf, 1, n)
  /\ op' = "truncate"
  /\ src' = "receive"
  /\ UNCHANGED <<typ, args, out, dec, hops, calls, bytes>>

\* one byte of a post changes in transit, at or after MinTamperOffset
Tamper ==
  /\ op = "create"
  /\ Returned(out)
  /\ typ \in PostTypes
  /\ \E i \in MinTamperOffset..(Len(buf) - 1), d \in Deltas :
       buf' = [buf EXCEPT ![i + 1] = (@ + d) % 256]
  /\ op' = "tamper"
  /\ UNCHANGED <<typ, src, args, out, dec, hops, calls, bytes>>

\* message tags no class of this revision writes
UnknownTags == {9, 127}

\* a peer sends a message whose msgType is none of the known ones, the rest
\* of the buffer being the same
ReceiveTag ==
  /\ op = "create"
  /\ Returned(out)
  /\ typ \in MessageTypes
  /\ \E t \in UnknownTags :
       buf' = [buf EXCEPT ![decodeVarintSlice(buf, 0).bytes + 1] = t]
  /\ out' = Return(buf')
  /\ op' = "tag"
  /\ src' = "receive"
  /\ UNCHANGED <<typ, args, dec, hops, calls, bytes>>

\* parseMessage(buf) of a message buffer, parsePost(buf) of a post buffer
Parse ==
  /\ op \in {"create", "tag", "tamper"}
  /\ Returned(out)
  /\ dec' = [by |-> typ,
             res |-> IF typ \in MessageTypes THEN parseMessage(buf) ELSE parsePost(buf),
             after |-> op]
  /\ op' = "parse"
  /\ UNCHANGED <<typ, src, args, buf, out, hops, calls, bytes>>

\* T.toJSON(buf) with the decoder of the buffer's own class
ToJSON ==
  /\ op \in {"create", "receive", "cut", "length", "decrementTTL", "truncate", "tamper"}
  /\ Returned(out)
  /\ dec' = [by |-> typ, res |-> ToJSONOf(typ, buf), after |-> op]
  /\ op' = "toJSON"
  /\ UNCHANGED <<typ, src, args, buf, out, hops, calls, bytes>>

\* D.toJSON(buf) with the decoder of another class
ToJSONOther(D) ==
  /\ op = "create"
  /\ Returned(out)
  /\ (D \in MessageTypes) = (typ \in MessageTypes)
  /\ D # typ
  /\ dec' = [by |-> D, res |-> ToJSONOf(D, buf), after |-> op]
  /\ op' = "toJSON"
  /\ UNCHANGED <<typ, src, args, buf, out, hops, calls, bytes>>

Next ==
  \/ \E T \in MessageTypes \cup PostTypes : Create(T)
  \/ \E T \in MessageTypes : Receive(T)
  \/ ReceivePost
  \/ ReceiveCut
  \/ ReceiveLength
  \/ ReceiveTag
  \/ Parse
  \/ DecrementTTL
  \/ Truncate
  \/ Tamper
  \/ ToJSON
  \/ \E D \in MessageTypes \cup PostTypes : ToJSONOther(D)

Spec == Init /\ [][Next]_vars

(***************************************************************************)
(* The calls statement by statement.  A toJSON call makes the reads of its *)
(* layout, a create call the writes of its list; a varint takes two        *)
(* statements, the call of the varint package, which leaves the byte count *)
(* in varint.decode.bytes or varint.encode.bytes, and the addition of that *)
(* property to the offset.  The calls in progress take their statements in *)
(* any order.                                                              *)
(***************************************************************************)
\* HASH_RESPONSE.toJSON of a buffer whose msgLen takes one byte and of one
\* whose msgLen takes two; CHANNEL_LIST_REQUEST.create with varints of one
\* byte and with an offset of two bytes
Jobs ==
  {[kind |-> "toJSON", b |-> HASH_RESPONSE_create(Reqid, HashList(n)).val,
    steps |-> HASH_RESPONSE_reads, i |-> 1, r |-> Start, pc |-> "run"] : n \in {1, MaxHashes}}
    \cup
  {[kind |-> "create", b |-> <<>>,
    steps |-> CHANNEL_LIST_REQUEST_writes(Reqid, 1, o, 20), i |-> 1,
    r |-> [frame |-> Alloc(Len(CHANNEL_LIST_REQUEST_frame(Reqid, 1, o, 20).frame)), offset |-> 0],
    pc |-> "run"] : o \in {0, 128}}

IsVarintStep(c) == (c.kind = "toJSON" /\ c.steps[c.i].k = "varint")
                     \/ (c.kind = "create" /\ c.steps[c.i].w = "varint")

\* the statement after the last one of the call
Advance(c) == [c EXCEPT !.i = c.i + 1, !.pc = IF c.i + 1 > Len(c.steps) THEN "done" ELSE "run"]

UnchangedBuffer == UNCHANGED <<op, typ, src, args, buf, out, dec, hops>>

\* T.toJSON(buf) or T.create(...) is called
CallStart(p) ==
  /\ calls[p].pc = "idle"
  /\ \E j \in Jobs : calls' = [calls EXCEPT ![p] = j]
  /\ UNCHANGED bytes
  /\ UnchangedBuffer

\* decodeVarintSlice(buf, offset), or encodeVarintBuffer(n) and b4a.copy in
\* writeVarint
VarintStep(p) ==
  /\ calls[p].pc = "run"
  /\ IsVarintStep(calls[p])
  /\ LET c == calls[p]
     IN  IF c.kind = "toJSON"
         THEN Bind(decodeVarintSlice(c.b, c.r.offset), LAMBDA d :
                /\ bytes' = [bytes EXCEPT !.decode = d.bytes]
                /\ calls' = [calls EXCEPT ![p] = [c EXCEPT !.r = Put(c.r, c.steps[c.i].name, d.value),
                                                           !.pc = "offset"]])
         ELSE /\ bytes' = [bytes EXCEPT !.encode = Len(c.steps[c.i].b)]
              /\ calls' = [calls EXCEPT ![p] = [c EXCEPT !.r.frame = b4a_copy(c.steps[c.i].b, c.r.frame,
                                                                              c.r.offset),
                                                         !.pc = "offset"]]
  /\ UnchangedBuffer

\* offset += varint.decode.bytes, or offset += writeVarint(...), which
\* returns varint.encode.bytes
OffsetStep(p) ==
  /\ calls[p].pc = "offset"
  /\ LET c == calls[p]
         n == IF c.kind = "toJSON" THEN bytes.decode ELSE bytes.encode
     IN  calls' = [calls EXCEPT ![p] = Advance([c EXCEPT !.r.offset = Plus(c.r.offset, n)])]
  /\ UNCHANGED bytes
  /\ UnchangedBuffer

\* a read that is a slice, or a write that is a b4a.copy
FieldStep(p) ==
  /\ calls[p].pc = "run"
  /\ ~IsVarintStep(calls[p])
  /\ LET c == calls[p]
     IN  IF c.kind = "toJSON"
         THEN calls' = [calls EXCEPT ![p] = Advance([c EXCEPT !.r = ReadOne(c.b, c.r, c.steps[c.i])])]
         ELSE calls' = [calls EXCEPT ![p] =
                Advance([c EXCEPT !.r = WriteAll(c.r.frame, c.r.offset, <<c.steps[c.i]>>)])]
  /\ UNCHANGED bytes
  /\ UnchangedBuffer

NextCalls ==
  \/ \E p \in Procs : CallStart(p)
  \/ \E p \in Procs : VarintStep(p)
  \/ \E p \in Procs : OffsetStep(p)
  \/ \E p \in Procs : FieldStep(p)

SpecCalls == Init /\ [][NextCalls]_vars

(***************************************************************************)
(* Properties of the codec.                                                *)
(***************************************************************************)
RoundTripMessages ==
  {"HASH_RESPONSE", "POST_REQUEST", "CANCEL_REQUEST", "TIME_RANGE_REQUEST",
   "CHANNEL_STATE_REQUEST", "CHANNEL_LIST_REQUEST", "CHANNEL_LIST_RESPONSE"}

RoundTripPosts == {"TEXT_POST", "DELETE_POST", "TOPIC_POST", "JOIN_POST", "LEAVE_POST"}

\* the buffer create returned, decoded by the decoder of its own class
DecodedOwn == op = "toJSON" /\ dec.after = "create" /\ dec.by = typ

\* C1: message round trip.  For HASH_RESPONSE, POST_REQUEST, CANCEL_REQUEST,
\* TIME_RANGE_REQUEST, CHANNEL_STATE_REQUEST, CHANNEL_LIST_REQUEST and
\* CHANNEL_LIST_RESPONSE, whenever create accepts its arguments, toJSON of
\* the buffer returns a record whose msgType is the class's tag and whose
\* fields equal the arguments, lists element by element.
C1_MessageRoundTrip ==
  (DecodedOwn /\ typ \in RoundTripMessages)
    => /\ Returned(dec.res)
       /\ dec.res.val.msgType = TagOf(typ)
       /\ \A f \in DOMAIN args : dec.res.val[f] = args[f]

C1_Witness ==
  /\ DecodedOwn
  /\ typ = "TIME_RANGE_REQUEST"
  /\ args.channel = <<97, 233, 8364, 128512>>
  /\ args.limit = 300
  /\ Returned(dec.res)
  /\ dec.res.val.channel = args.channel

C3_MsgLen ==
  (op \in {"create", "decrementTTL"} /\ typ \in MessageTypes /\ Returned(out))
    => decodeVarintSlice(out.val, 0).value
         = Len(out.val) - decodeVarintSlice(out.val, 0).bytes

\* a relayed buffer long enough for a two-byte msgLen
C3_Witness ==
  /\ op = "decrementTTL"
  /\ Returned(out)
  /\ buf = out.val
  /\ Len(buf) > 129
  /\ decodeVarintSlice(buf, 0).bytes = 2

\* C4: decrementTTL.  For POST_REQUEST, TIME_RANGE_REQUEST,
\* CHANNEL_STATE_REQUEST and CHANNEL_LIST_REQUEST, a buffer made by create
\* and relayed through decrementTTL hops times decodes to what the created
\* buffer decodes to, but for ttl, which is lower by hops; and decrementTTL
\* never returns a buffer when the ttl it finds is 0, so that the calls that
\* returned never outnumber the ttl given to create.
C4_DecrementTTL ==
  /\ (op = "toJSON" /\ dec.after = "decrementTTL" /\ src = "create" /\ dec.by = typ)
       => dec.res = Return([ToJSONOf(typ, CreateOf(typ, args).val).val
                              EXCEPT !.ttl = args.ttl - hops])
  /\ (op = "decrementTTL" /\ src = "create" /\ Returned(out)) => hops <= args.ttl

C4_Witness ==
  /\ op = "toJSON"
  /\ dec.after = "decrementTTL"
  /\ src = "create"
  /\ typ = "TIME_RANGE_REQUEST"
  /\ hops = 2
  /\ args.ttl = 16
  /\ Returned(dec.res)
  /\ dec.res.val.ttl = 14

\* C5: tampering.  For every post class, when one byte at offset 96 or
\* later of a buffer create returned is changed, toJSON raises the signature
\* error (a signature being valid only for the payload and key it was made
\* with).
C5_TamperDetected ==
  (op = "toJSON" /\ dec.after = "tamper") => dec.res = Throw("signature")

\* the last byte of a BLOCK_POST changed
C5_Witness ==
  /\ op = "toJSON"
  /\ dec.after = "tamper"
  /\ typ = "BLOCK_POST"
  /\ buf[Len(buf)] # out.val[Len(buf)]
  /\ dec.res = Throw("signature")

\* the ttl a decoder of a request reads after the reqid
DecodedTTL(b) == Read(b, Start, MessageHead \o <<Varint("ttl")>>).ttl

\* C6: ttl range.  create of POST_REQUEST, CANCEL_REQUEST,
\* TIME_RANGE_REQUEST, CHANNEL_STATE_REQUEST and CHANNEL_LIST_REQUEST raises
\* and returns no buffer when ttl is an integer outside 0..16; toJSON of
\* each raises when the ttl in a buffer of its class is outside 0..16.
C6_TTLRange ==
  /\ (op = "create" /\ typ \in TTLTypes /\ args.ttl \notin 0..16)
       => (Threw(out) /\ buf = <<>>)
  /\ (op = "toJSON" /\ typ \in TTLTypes /\ dec.by = typ /\ DecodedTTL(buf) \notin 0..16)
       => Threw(dec.res)

\* a CANCEL_REQUEST received with ttl 300
C6_Witness ==
  /\ op = "toJSON"
  /\ dec.after = "receive"
  /\ typ = "CANCEL_REQUEST"
  /\ DecodedTTL(buf) = 300
  /\ dec.res = Throw("ttlRangeExpected")

\* C7: the channel name bound counts codepoints.  create accepts a channel
\* name exactly when it has between 1 and 64 codepoints, whatever their
\* UTF-8 width.
C7_ChannelBoundInCodepoints ==
  (op = "create" /\ typ \in ChannelTypes /\ args.ttl \in 0..16)
    => (Returned(out) <=> Len(args.channel) \in 1..CHANNEL_NAME_MAX_CODEPOINTS)

\* 64 codepoints of two bytes each are refused
C7_Divergence ==
  /\ op = "create"
  /\ typ = "TIME_RANGE_REQUEST"
  /\ args.ttl = 1
  /\ args.channel = Rep(233, CHANNEL_NAME_MAX_CODEPOINTS)
  /\ out = Throw("codepointRangeExpected channel")

C9_TruncatedRaises ==
  (op = "toJSON" /\ dec.after = "truncate") => Threw(dec.res)

\* a CHANNEL_LIST_REQUEST that lost its last byte
C9_Witness ==
  /\ op = "toJSON"
  /\ dec.after = "truncate"
  /\ typ = "CHANNEL_LIST_REQUEST"
  /\ Len(buf) = Len(out.val) - 1
  /\ Threw(dec.res)

\* the tag in the buffer: msgType of a message, postType of a post
WrittenTag(b) ==
  IF typ \in MessageTypes THEN peekMessage(b) ELSE Read(b, Start, PostHead).postType

\* C10: tag mismatch.  toJSON of every message and post class, given a
\* buffer create returned whose tag is not the one the decoder checks for,
\* raises; it returns no value, neither a record nor an Error object.
C10_TagMismatchRaises ==
  (op = "toJSON" /\ dec.after = "create" /\ dec.by # typ
     /\ WrittenTag(buf) # CheckedTag(dec.by))
    => Threw(dec.res)

\* TIME_RANGE_REQUEST.toJSON returns an Error object for a HASH_RESPONSE
C10_Divergence ==
  /\ op = "toJSON"
  /\ dec.after = "create"
  /\ typ = "HASH_RESPONSE"
  /\ dec.by = "TIME_RANGE_REQUEST"
  /\ dec.res = ReturnError("msgType")

\* C11: each post class carries its own tag.  For each of the ten post
\* classes and any number of links, peekPost of the buffer create returned
\* is the class's own post-type tag; a MODERATION_POST peeks as 7.
C11_OwnPostTag ==
  (op = "create" /\ typ \in PostTypes /\ Returned(out)) => peekPost(out.val) = TagOf(typ)

\* a moderation post with two links peeks as a role post
C11_Divergence ==
  /\ op = "create"
  /\ typ = "MODERATION_POST"
  /\ Len(args.links) = 2
  /\ Returned(out)
  /\ peekPost(out.val) = C_ROLE_POST

\* C12: POST_RESPONSE round trip.  Whenever POST_RESPONSE.create accepts
\* reqid and posts, an array with a zero-length buffer before other entries
\* included, toJSON of the buffer returns posts with as many entries, each
\* byte-equal and in the same order.
C12_PostResponseRoundTrip ==
  (DecodedOwn /\ typ = "POST_RESPONSE")
    => /\ Returned(dec.res)
       /\ Len(dec.res.val.posts) = Len(args.posts)
       /\ dec.res.val.posts = args.posts

\* a zero-length buffer followed by a post of three bytes decodes to no posts
C12_Divergence ==
  /\ DecodedOwn
  /\ typ = "POST_RESPONSE"
  /\ args.posts = <<<<>>, <<1, 1, 1>>>>
  /\ Returned(out)
  /\ Returned(dec.res)
  /\ dec.res.val.posts = <<>>

\* the [key, value] pairs given to INFO_POST.create, as a list or as the one
\* key and the one value
PairsOf(a) == IF a.argc = 5 THEN a.pairs ELSE <<<<a.key, a.value>>>>

\* C13: the info post holds a list of pairs.  INFO_POST.create(publicKey,
\* secretKey, links, timestamp, pairs) accepts a list of one or more
\* [key, value] pairs, and toJSON of a buffer INFO_POST.create returned
\* returns a record whose info map holds every given key with its value.
C13_InfoPairs ==
  /\ (op = "create" /\ typ = "INFO_POST" /\ args.argc = 5) => Returned(out)
  /\ (DecodedOwn /\ typ = "INFO_POST")
       => /\ Returned(dec.res)
          /\ "info" \in DOMAIN dec.res.val
          /\ \A i \in 1..Len(PairsOf(args)) :
               /\ PairsOf(args)[i][1] \in DOMAIN dec.res.val.info
               /\ dec.res.val.info[PairsOf(args)[i][1]] = PairsOf(args)[i][2]

\* create refuses the list of two pairs: it wants six arguments
C13_Divergence ==
  /\ op = "create"
  /\ typ = "INFO_POST"
  /\ args.argc = 5
  /\ Len(args.pairs) = 2
  /\ out = Throw("wrongNumberArguments")

\* C14: future is 0 or 1.  CHANNEL_STATE_REQUEST.create and
\* MODERATION_STATE_REQUEST.create raise when future is an integer other
\* than 0 or 1, and their toJSON never return a record whose future is not
\* 0 or 1.
C14_FutureChecked ==
  /\ (op = "create" /\ typ \in FutureTypes /\ ~checkFuture(args.future)) => Threw(out)
  /\ (op = "toJSON" /\ typ \in FutureTypes /\ dec.by = typ /\ Returned(dec.res))
       => checkFuture(dec.res.val.future)

\* future = 100 is encoded by create and decoded by toJSON
C14_Divergence ==
  /\ DecodedOwn
  /\ typ = "CHANNEL_STATE_REQUEST"
  /\ args.future = 100
  /\ Returned(out)
  /\ Returned(dec.res)
  /\ dec.res.val.future = 100

\* recipients that break the rule of the action: not hash-shaped for a post
\* action, not key-shaped for a user action, not empty for a channel action
BreaksActionRule(action, recipients) ==
  \/ /\ action \in {ACTION_HIDE_POST, ACTION_UNHIDE_POST, ACTION_DROP_POST, ACTION_UNDROP_POST}
     /\ \E i \in 1..Len(recipients) : Len(recipients[i]) # HASH_SIZE
  \/ /\ action \in {ACTION_HIDE_USER, ACTION_UNHIDE_USER}
     /\ \E i \in 1..Len(recipients) : Len(recipients[i]) # PUBLICKEY_SIZE
  \/ /\ action \in {ACTION_DROP_CHANNEL, ACTION_UNDROP_CHANNEL}
     /\ Len(recipients) > 0

C16_ChannelActionEncodable ==
  /\ (op = "create" /\ typ = "MODERATION_POST"
        /\ args.action \in {ACTION_DROP_CHANNEL, ACTION_UNDROP_CHANNEL}
        /\ args.recipients = <<>>
        /\ Len(args.channel) \in 1..CHANNEL_NAME_MAX_CODEPOINTS)
       => Returned(out)
  /\ (DecodedOwn /\ typ = "MODERATION_POST"
        /\ args.action \in {ACTION_DROP_CHANNEL, ACTION_UNDROP_CHANNEL})
       => /\ Returned(dec.res)
          /\ dec.res.val.recipients = <<>>
          /\ \A f \in {"action", "channel", "reason", "privacy"} : dec.res.val[f] = args[f]

\* drop-channel with no recipients is refused for having fewer than one
C16_Divergence ==
  /\ op = "create"
  /\ typ = "MODERATION_POST"
  /\ args.action = ACTION_DROP_CHANNEL
  /\ args.recipients = <<>>
  /\ args.channel = <<97>>
  /\ out = Throw("recipients length")
  /\ buf = <<>>

\* a field set the post format allows: an in-bound channel name for a role
\* post, 1 to 16 recipients for a block or unblock post, and the eight
\* arguments of UNBLOCK_POST.create
ValidModeration(T, a) ==
  CASE T = "ROLE_POST" -> Len(a.channel) \in 1..CHANNEL_NAME_MAX_CODEPOINTS
    [] T = "BLOCK_POST" -> Len(a.recipients) \in RECIPIENT_COUNT_MIN..RECIPIENT_COUNT_MAX
    [] T = "UNBLOCK_POST" ->
         a.argc = 8 /\ Len(a.recipients) \in RECIPIENT_COUNT_MIN..RECIPIENT_COUNT_MAX

\* C17: role, block and unblock round trip.  For ROLE_POST, BLOCK_POST and
\* UNBLOCK_POST (called with its eight arguments) and every valid field
\* set, create returns a buffer, and toJSON of it returns the class's
\* postType and every field given to create but the secret key.
C17_ModerationRoundTrip ==
  /\ (op = "create" /\ typ \in {"ROLE_POST", "BLOCK_POST", "UNBLOCK_POST"}
        /\ ValidModeration(typ, args))
       => Returned(out)
  /\ (DecodedOwn /\ typ \in {"ROLE_POST", "BLOCK_POST", "UNBLOCK_POST"})
       => /\ Returned(dec.res)
          /\ dec.res.val.postType = TagOf(typ)
          /\ \A f \in DOMAIN args \ {"secretKey", "argc"} : dec.res.val[f] = args[f]

\* BLOCK_POST.toJSON raises on the buffer BLOCK_POST.create returned
C17_Divergence ==
  /\ DecodedOwn
  /\ typ = "BLOCK_POST"
  /\ Len(args.recipients) = 2
  /\ Returned(out)
  /\ dec.res = Throw("ReferenceError secretKey")

\* C18: moderation state request round trip.
\* MODERATION_STATE_REQUEST.create(reqid, ttl, channels, future, oldest)
\* returns a buffer that peeks as 8, and toJSON of a buffer its create
\* returned returns reqid, ttl, channels, future and oldest as given.
C18_ModerationStateRoundTrip ==
  /\ (op = "create" /\ typ = "MODERATION_STATE_REQUEST" /\ args.argc = 5)
       => (Returned(out) /\ peekMessage(out.val) = C_MODERATION_STATE_REQUEST)
  /\ (DecodedOwn /\ typ = "MODERATION_STATE_REQUEST")
       => /\ Returned(dec.res)
          /\ "ttl" \in DOMAIN dec.res.val
          /\ \A f \in DOMAIN args \ {"argc"} : dec.res.val[f] = args[f]

\* create refuses the five arguments: it has no ttl parameter
C18_Divergence ==
  /\ op = "create"
  /\ typ = "MODERATION_STATE_REQUEST"
  /\ args.argc = 5
  /\ args.ttl = 1
  /\ Len(args.channels) = 2
  /\ out = Throw("wrongNumberArguments")

\* C19: decrementTTL of the cancel request.  CANCEL_REQUEST.decrementTTL
\* applied to a buffer CANCEL_REQUEST.create(reqid, ttl, cancelid) returned
\* with ttl >= 1 returns a buffer, and that buffer decodes to the same reqid
\* and cancelid and to ttl - 1.
C19_CancelDecrementTTL ==
  (op = "decrementTTL" /\ typ = "CANCEL_REQUEST" /\ src = "create" /\ hops = 0 /\ args.ttl >= 1)
    => /\ Returned(out)
       /\ LET d == CANCEL_REQUEST_toJSON(out.val)
          IN /\ Returned(d)
             /\ d.val.reqid = args.reqid
             /\ d.val.cancelid = args.cancelid
             /\ d.val.ttl = args.ttl - 1

\* the call on a created cancel request with ttl 16 raises the TypeError
C19_Divergence ==
  /\ op = "decrementTTL"
  /\ typ = "CANCEL_REQUEST"
  /\ src = "create"
  /\ args.ttl = 16
  /\ Returned(CANCEL_REQUEST_toJSON(buf))
  /\ CANCEL_REQUEST_toJSON(buf).val.ttl = 16
  /\ out = Throw("TypeError decrementTTL is not a function")

\* where the parts of a request lie: the msgLen prefix ends at msgLenOffset,
\* msgType, circuitid and reqid end at ttlOffset, the ttl varint ends at offset
TTLField(b) ==
  Read(b, Start, <<Varint("msgLen"), Mark("msgLenOffset"), Varint("msgType"),
                   Skip(CIRCUITID_SIZE), Skip(REQID_SIZE), Mark("ttlOffset"), Varint("ttl")>>)

\* the bytes of msgType, circuitid and reqid, and the bytes after the ttl
Framed(b) ==
  <<Slice(b, TTLField(b).msgLenOffset, TTLField(b).ttlOffset), SliceFrom(b, TTLField(b).offset)>>

CancelFixture == <<14, 3>> \o EMPTY_CIRCUIT_ID \o Reqid \o <<1>> \o Cancelid

\* C21: the cancel request fixture.  CANCEL_REQUEST.create(04baaffb, 1,
\* 31b5c9e1) returns the 15 bytes 0e 03 00000000 04baaffb 01 31b5c9e1, and
\* CANCEL_REQUEST.toJSON of those bytes returns msgLen 14, msgType 3, reqid
\* 04baaffb, ttl 1 and cancelid 31b5c9e1.
C21_CancelFixture ==
  /\ (op = "create" /\ typ = "CANCEL_REQUEST" /\ args.ttl = 1)
       => /\ args.reqid = <<4, 186, 175, 251>>
          /\ args.cancelid = <<49, 181, 201, 225>>
          /\ out = Return(CancelFixture)
  /\ (op = "toJSON" /\ dec.by = "CANCEL_REQUEST" /\ buf = CancelFixture)
       => dec.res = Return([msgLen |-> 14, msgType |-> 3, reqid |-> <<4, 186, 175, 251>>,
                            ttl |-> 1, cancelid |-> <<49, 181, 201, 225>>])

\* the fixture made by create and decoded
C21_Witness ==
  /\ op = "toJSON"
  /\ dec.by = "CANCEL_REQUEST"
  /\ dec.after = "create"
  /\ Len(buf) = 15
  /\ buf = CancelFixture
  /\ Returned(dec.res)

\* what the call gives when no other call runs between its statements
Alone(c) ==
  IF c.kind = "toJSON" THEN Read(c.b, Start, c.steps)
  ELSE WriteAll(Alloc(Len(c.r.frame)), 0, c.steps)

NumberFields ==
  {"ttl", "timeStart", "timeEnd", "limit", "offset", "future", "oldest", "timestamp"}

\* the arguments of create with the decoded values in the place of those of
\* the same name
Redecoded == [f \in DOMAIN args |-> IF f \in DOMAIN dec.res.val THEN dec.res.val[f] ELSE args[f]]

\* C23: symmetric validation.  For every message and post class, the fields
\* of a record toJSON returns are values create accepts: every number is
\* defined, every fixed-size field has its size, every string and list is
\* within its bound.
C23_SymmetricValidation ==
  (op = "toJSON" /\ dec.by = typ /\ Returned(dec.res))
    => /\ \A f \in NumberFields \cap DOMAIN dec.res.val : IsNumber(dec.res.val[f])
       /\ Returned(CreateOf(typ, Redecoded))

\* a cancel request whose cancelid has three bytes, behind a msgLen of 13,
\* is decoded
C23_Divergence ==
  /\ op = "toJSON"
  /\ dec.after = "cut"
  /\ typ = "CANCEL_REQUEST"
  /\ dec.by = typ
  /\ Returned(dec.res)
  /\ dec.res.val.msgLen = 13
  /\ Len(dec.res.val.cancelid) = 3
  /\ CreateOf(typ, Redecoded) = Throw("bufferExpected cancelid")

\* C24: the size planner is exact.  In every create that returns, the size
\* determineBufferSize plans is the offset the writes end at, and it is the
\* length of the frame: no byte at the end is left unwritten and no write
\* falls past the end.
C24_PlannedSizeExact ==
  (op = "create" /\ Returned(out))
    => /\ FrameOf(typ, args).offset = FrameOf(typ, args).size
       /\ FrameOf(typ, args).size = Len(FrameOf(typ, args).frame)

\* a role post whose writes end one byte before the end of the buffer: the
\* last byte is the zero of b4a.alloc
C24_Divergence ==
  /\ op = "create"
  /\ typ = "ROLE_POST"
  /\ Returned(out)
  /\ args.role = 1
  /\ FrameOf(typ, args).offset = FrameOf(typ, args).size - 1
  /\ Len(out.val) = FrameOf(typ, args).size
  /\ out.val[Len(out.val)] = 0

\* the bytes of b from offset on begin with a varint of at most
\* MAX_VARINT_SIZE bytes: some bytes with the continuation bit, then one
\* without
HoldsVarint(b, offset) ==
  \E k \in 1..MAX_VARINT_SIZE :
    /\ offset + k <= Len(b)
    /\ b[offset + k] < 128
    /\ \A j \in 1..(k - 1) : b[offset + j] >= 128

\* C25: an incomplete varint is an error.  For a buffer create returned, or
\* a prefix of one, and every offset up to one past its end: where the
\* bytes from the offset on hold no complete varint of at most the maximum
\* width, decodeVarintSlice raises an error and returns nothing.
C25_IncompleteVarintRaises ==
  (op \in {"create", "truncate"} /\ Returned(out))
    => \A offset \in 0..(Len(buf) + 1) :
         ~HoldsVarint(buf, offset) => Threw(decodeVarintSlice_call(buf, offset))

\* the two bytes of a msgLen of 138 cut to the first: the call at offset 0
\* returns undefined, and so does the call at offset 1, the end
C25_Divergence ==
  /\ op = "truncate"
  /\ buf = <<138>>
  /\ ~HoldsVarint(buf, 0)
  /\ decodeVarintSlice_call(buf, 0) = Return(Undefined)
  /\ decodeVarintSlice_call(buf, 1) = Return(Undefined)

\* the first count or length of the buffer, and where its payload begins
Declared(T, b) ==
  Read(b, [offset |-> LengthOffset(T, b)], <<Varint("n")>>)

\* the count or length declares more bytes than the buffer has left
DeclaresBeyond(T, b) ==
  /\ IsNumber(Declared(T, b).n)
  /\ Declared(T, b).n * (IF T \in HashCountTypes THEN HASH_SIZE ELSE 1)
       > Len(b) - Declared(T, b).offset

\* C26: a declared length beyond the buffer is rejected.  When the first
\* count or length of a message declares more bytes than the buffer has
\* left, toJSON raises: it returns no record, hence none with a field cut to
\* the bytes there are.
C26_DeclaredLengthChecked ==
  (op = "toJSON" /\ dec.by = typ /\ typ \in LengthTypes /\ DeclaresBeyond(typ, buf))
    => Threw(dec.res)

\* a time range request whose channelLen declares 51 bytes where 6 are left
\* is decoded: the channel is the 6 bytes, the three numbers are undefined
C26_Divergence ==
  /\ op = "toJSON"
  /\ dec.after = "length"
  /\ typ = "TIME_RANGE_REQUEST"
  /\ dec.by = typ
  /\ Declared(typ, buf).n = 51
  /\ Len(buf) - Declared(typ, buf).offset = 6
  /\ Returned(dec.res)
  /\ Len(dec.res.val.channel) = 6
  /\ dec.res.val.timeStart = Undefined
  /\ dec.res.val.limit = Undefined

\* the classes whose list of (length, payload) pairs ends with a length of 0
SentinelTypes == {"POST_RESPONSE", "CHANNEL_LIST_RESPONSE", "MODERATION_STATE_REQUEST"}

RECURSIVE PairsBefore(_, _, _)
\* the payloads of the pairs of b from offset on, up to a length of 0 or the
\* end of b, and whether a length of 0 was met
PairsBefore(b, offset, acc) ==
  IF offset >= Len(b) THEN [entries |-> acc, ended |-> FALSE]
  ELSE Bind(decodeVarintSlice(b, offset), LAMBDA d :
       IF ~IsNumber(d.value) THEN [entries |-> acc, ended |-> FALSE]
       ELSE IF d.value = 0 THEN [entries |-> acc, ended |-> TRUE]
       ELSE PairsBefore(b, offset + d.bytes + d.value,
                        Append(acc, Slice(b, offset + d.bytes, offset + d.bytes + d.value))))

ListOf(b) == PairsBefore(b, Read(b, Start, MessageHead).offset, <<>>)

\* the list of the decoded record, as buffers
DecodedList ==
  IF typ = "POST_RESPONSE" THEN dec.res.val.posts
  ELSE [i \in 1..Len(dec.res.val.channels) |-> b4a_from(dec.res.val.channels[i])]

\* C27: a missing sentinel is rejected.  POST_RESPONSE.toJSON,
\* CHANNEL_LIST_RESPONSE.toJSON and MODERATION_STATE_REQUEST.toJSON raise
\* when the pairs run to the end of the buffer with no length of 0; when
\* the length of 0 is there and toJSON returns, the list is the entries
\* before it.
C27_SentinelRequired ==
  (op = "toJSON" /\ dec.by = typ /\ typ \in SentinelTypes)
    => /\ ~ListOf(buf).ended => Threw(dec.res)
       /\ (ListOf(buf).ended /\ Returned(dec.res)) => DecodedList = ListOf(buf).entries

\* a post response of two posts whose last byte, the length of 0, is left
\* off, behind a msgLen that matches: the two posts are returned
C27_Divergence ==
  /\ op = "toJSON"
  /\ dec.after = "cut"
  /\ typ = "POST_RESPONSE"
  /\ dec.by = typ
  /\ args.posts = PostList(2)
  /\ ~ListOf(buf).ended
  /\ Len(ListOf(buf).entries) = 2
  /\ Returned(dec.res)
  /\ dec.res.val.posts = PostList(2)

\* C28: the hop budget.  For a request create returned with ttl t and
\* relayed by a class that has decrementTTL: the call made after h calls
\* have returned returns when h < t, with a buffer whose ttl is t - h - 1,
\* and raises the negative-ttl error when h = t; no more than t calls, hence
\* no more than 16, ever return.
C28_HopBudget ==
  /\ [][(op' = "decrementTTL" /\ src = "create" /\ typ \in RelayTypes)
          => IF hops < args.ttl
             THEN /\ Returned(out')
                  /\ DecodedTTL(out'.val) = args.ttl - hops - 1
                  /\ hops' = hops + 1
             ELSE /\ out' = Throw("ttl negative")
                  /\ hops' = hops
                  /\ buf' = buf]_vars
  /\ []((src = "create" /\ typ \in RelayTypes /\ args.ttl \in 0..16)
          => (hops <= args.ttl /\ hops <= 16))

\* the seventeenth call on a request made with ttl 16: sixteen calls have
\* returned, the buffer holds ttl 0, the call raises
C28_Witness ==
  /\ op = "decrementTTL"
  /\ src = "create"
  /\ typ = "CHANNEL_LIST_REQUEST"
  /\ args.ttl = 16
  /\ hops = 16
  /\ DecodedTTL(buf) = 0
  /\ out = Throw("ttl negative")

\* C29: decrementTTL does not legitimise invalid input.  When toJSON does
\* not return for the buffer given to decrementTTL, either decrementTTL
\* raises or toJSON does not return for the buffer it returns.
C29_RelayKeepsInvalid ==
  [][(op' = "decrementTTL" /\ typ \in RelayTypes /\ ~Returned(ToJSONOf(typ, buf))
        /\ Returned(out'))
       => ~Returned(ToJSONOf(typ, out'.val))]_vars

\* a post request that arrived with ttl 17, which toJSON rejects, was
\* relayed once and is decoded with ttl 16
C29_Divergence ==
  /\ op = "toJSON"
  /\ dec.after = "decrementTTL"
  /\ src = "receive"
  /\ typ = "POST_REQUEST"
  /\ args.ttl = 17
  /\ hops = 1
  /\ ToJSONOf(typ, prependMsgLen(FrameOf(typ, args).frame)) = Throw("ttlRangeExpected")
  /\ Returned(dec.res)
  /\ dec.res.val.ttl = 16

\* the tags parseMessage and parsePost are to dispatch on
KnownTags == IF typ \in MessageTypes THEN 0..8 ELSE 0..9

\* C30: dispatch completeness.  parseMessage and parsePost of a buffer that
\* create of a class returned give what toJSON of that class gives for it,
\* and of a buffer with any other tag each raises an Error that names the
\* unknown type.
C30_DispatchComplete ==
  /\ (op = "parse" /\ dec.after = "create") => dec.res = ToJSONOf(typ, buf)
  /\ (op = "parse" /\ IsNumber(WrittenTag(buf)) /\ WrittenTag(buf) \notin KnownTags)
       => dec.res = UnknownType(WrittenTag(buf))

\* parseMessage of a created moderation-state request, which its own
\* toJSON decodes, raises and names no type
C30_Divergence ==
  /\ op = "parse"
  /\ dec.after = "create"
  /\ typ = "MODERATION_STATE_REQUEST"
  /\ Returned(ToJSONOf(typ, buf))
  /\ dec.res = Throw("ReferenceError postType is not defined")

====
